---- MODULE Spec2Model ----
(***************************************************************************)
(* Model of the Blender AI automation pipeline: the static validator and  *)
(* the fixer of src/src/code_validator.py, the generate -> validate ->     *)
(* execute retry loop of BlenderAI.run in src/src/main.py, and the prompt  *)
(* processor of src/src/prompt_processor.py.                               *)
(*                                                                         *)
(* Source texts are TLA+ strings, i.e. sequences of characters, so the     *)
(* substring tests of the validator are computed character by character.   *)
(***************************************************************************)
EXTENDS Integers, Sequences, FiniteSets, TLC

(***************************************************************************)
(* Bounds of the model.                                                    *)
(***************************************************************************)
\* longest candidate program, in lines of the line library
MaxLines == 2
\* largest explicit max_retries argument handed to run
MaxRetriesArg == 2
\* longest prompt, in tokens of the token library
MaxTokens == 2
\* longest prompt handed to _assess_complexity, in words
MaxWords == 51
\* most objects, and most colors, of the entities handed to _assess_complexity
MaxNames == 5

(***************************************************************************)
(* Python string primitives.                                               *)
(***************************************************************************)
\* s[i:] with a 0-based start
Suffix(s, i) == SubSeq(s, i + 1, Len(s))

\* s[:i] with a 0-based end
Prefix(s, i) == SubSeq(s, 1, i)

\* s.startswith(p)
StartsWith(s, p) == Len(p) <= Len(s) /\ SubSeq(s, 1, Len(p)) = p

\* p in s
Contains(s, p) ==
    \E i \in 0..(Len(s) - Len(p)) : SubSeq(s, i + 1, i + Len(p)) = p

\* s.index(p), 0-based; only used where p in s
Index(s, p) ==
    CHOOSE i \in 0..(Len(s) - Len(p)) :
        /\ SubSeq(s, i + 1, i + Len(p)) = p
        /\ \A j \in 0..(i - 1) : SubSeq(s, j + 1, j + Len(p)) # p

\* s.count(p): number of non-overlapping occurrences, scanning left to right
RECURSIVE Count(_, _)
Count(s, p) ==
    IF ~Contains(s, p) THEN 0
    ELSE 1 + Count(Suffix(s, Index(s, p) + Len(p)), p)

\* s.split(sep): the list of pieces between the occurrences of sep
RECURSIVE Split(_, _)
Split(s, sep) ==
    IF ~Contains(s, sep) THEN <<s>>
    ELSE <<Prefix(s, Index(s, sep))>> \o Split(Suffix(s, Index(s, sep) + Len(sep)), sep)

\* sep.join(parts)
RECURSIVE Join(_, _)
Join(parts, sep) ==
    IF Len(parts) = 0 THEN ""
    ELSE IF Len(parts) = 1 THEN parts[1]
    ELSE parts[1] \o sep \o Join(Tail(parts), sep)

UpperCase == "ABCDEFGHIJKLMNOPQRSTUVWXYZ"
LowerCase == "abcdefghijklmnopqrstuvwxyz"

\* c.lower() of one character
LowerChar(c) ==
    IF Contains(UpperCase, c)
    THEN SubSeq(LowerCase, Index(UpperCase, c) + 1, Index(UpperCase, c) + 1)
    ELSE c

\* s.lower(): character by character, the text halved at each step
RECURSIVE Lower(_)
Lower(s) ==
    IF Len(s) = 0 THEN ""
    ELSE IF Len(s) = 1 THEN LowerChar(s)
    ELSE Lower(Prefix(s, Len(s) \div 2)) \o Lower(Suffix(s, Len(s) \div 2))

\* the elements of a list, as a set
Range(f) == { f[i] : i \in DOMAIN f }

(***************************************************************************)
(* Candidate programs.  A candidate is the text the generator returns: up  *)
(* to MaxLines lines of the library below joined by newlines, or the empty *)
(* text.  The library holds one line for every branch of the validator     *)
(* that the properties below are about.                                    *)
(***************************************************************************)
LineLibrary ==
    { "import bpy",
      "bpy.ops.object.select_all()",
      "bpy.ops.mesh.add()",
      "r = math.pi",
      "import socket",
      "import os, socket",
      "import os, bpy",
      "bpy.ops.object.delete(); bpy.ops.mesh.add(name='a')",
      "f.write(y)",
      "x = 1 # f.write(y)",
      "s = '#'; f.write(y)",
      "# open(p)",
      "# import bpy",
      "os.system('rm')",
      "1 +" }

LineSeqs == UNION { [1..n -> LineLibrary] : n \in 0..MaxLines }

Sources == { Join(ls, "\n") : ls \in LineSeqs }

\* the candidates the generator returns in the retry loop of run: the empty
\* text, one line of the library, or a comment that is not ASCII
Candidates == { "" } \cup LineLibrary \cup { "# →" }

(***************************************************************************)
(* CodeValidator (src/src/code_validator.py).                              *)
(***************************************************************************)
DANGEROUS_IMPORTS ==
    << "os.system", "subprocess", "eval", "exec", "__import__", "compile", "open" >>

REQUIRED_IMPORTS == << "bpy" >>

file_ops == << "open(", "write(", "read(", "remove(", "unlink(" >>

network_ops == << "urllib", "requests", "socket", "http" >>

Digits == "0123456789"

\* str(n) of a line number
RECURSIVE IntToStr(_)
IntToStr(n) ==
    IF n < 10 THEN SubSeq(Digits, n + 1, n + 1)
    ELSE IntToStr(n \div 10) \o SubSeq(Digits, (n % 10) + 1, (n % 10) + 1)

\* s.rstrip(" ")
RECURSIVE RStrip(_)
RStrip(s) ==
    IF Len(s) > 0 /\ SubSeq(s, Len(s), Len(s)) = " " THEN RStrip(Prefix(s, Len(s) - 1))
    ELSE s

\* The verdict of the Python parser on one line of the library: every line is
\* a complete simple statement or a comment, except a line that stops after a
\* binary operator.
LineParses(line) ==
    LET t == RStrip(line)
    IN  ~(Len(t) > 0 /\ SubSeq(t, Len(t), Len(t)) = "+")

\* ast.parse(code): 0 when the text parses, else the number of the first line
\* the parser rejects (SyntaxError.lineno)
SyntaxErrorLine(code) ==
    LET lines == Split(code, "\n")
        bad == { i \in 1..Len(lines) : ~LineParses(lines[i]) }
    IN  IF bad = {} THEN 0
        ELSE CHOOSE i \in bad : \A j \in bad : i <= j

\* _check_syntax: (is_valid, error_messages)
CheckSyntax(code) ==
    IF SyntaxErrorLine(code) = 0 THEN << TRUE, <<>> >>
    ELSE << FALSE,
            << "Syntax Error at line " \o IntToStr(SyntaxErrorLine(code))
               \o ": invalid syntax" >> >>

\* _is_in_comment: TRUE iff on every line holding the pattern, the first
\* occurrence of the pattern comes after the first '#'
IsInComment(code, pattern) ==
    LET lines == Split(code, "\n")
    IN  \A i \in 1..Len(lines) :
            Contains(lines[i], pattern) =>
                ~(\/ ~Contains(lines[i], "#")
                  \/ Index(lines[i], pattern) < Index(lines[i], "#"))

\* DangerousIssues as it would be if the deny-list scan skipped commented text
RECURSIVE DangerousIssuesSkipComments(_, _)
DangerousIssuesSkipComments(code, pats) ==
    IF Len(pats) = 0 THEN <<>>
    ELSE (IF Contains(code, Head(pats)) /\ ~IsInComment(code, Head(pats))
          THEN << "Dangerous operation detected: " \o Head(pats) >>
          ELSE <<>>)
         \o DangerousIssuesSkipComments(code, Tail(pats))

\* the loop over DANGEROUS_IMPORTS of _check_security
RECURSIVE DangerousIssues(_, _)
DangerousIssues(code, pats) ==
    IF Len(pats) = 0 THEN <<>>
    ELSE (IF Contains(code, Head(pats))
          THEN << "Dangerous operation detected: " \o Head(pats) >>
          ELSE <<>>)
         \o DangerousIssues(code, Tail(pats))

\* the loop over file_ops of _check_security
RECURSIVE FileOpIssues(_, _)
FileOpIssues(code, ops) ==
    IF Len(ops) = 0 THEN <<>>
    ELSE (IF Contains(code, Head(ops)) /\ ~IsInComment(code, Head(ops))
          THEN << "File operation detected: " \o Head(ops) >>
          ELSE <<>>)
         \o FileOpIssues(code, Tail(ops))

\* the loop over network_ops of _check_security
RECURSIVE NetworkIssues(_, _)
NetworkIssues(code, ops) ==
    IF Len(ops) = 0 THEN <<>>
    ELSE (IF \/ Contains(code, "import " \o Head(ops))
             \/ Contains(code, "from " \o Head(ops))
          THEN << "Network operation detected: " \o Head(ops) >>
          ELSE <<>>)
         \o NetworkIssues(code, Tail(ops))

\* _check_security: (is_safe, security_issues)
CheckSecurity(code) ==
    LET issues == DangerousIssues(code, DANGEROUS_IMPORTS)
                  \o FileOpIssues(code, file_ops)
                  \o NetworkIssues(code, network_ops)
    IN  << Len(issues) = 0, issues >>

\* the loop over REQUIRED_IMPORTS of _check_imports
RECURSIVE RequiredImportWarnings(_, _)
RequiredImportWarnings(code, reqs) ==
    IF Len(reqs) = 0 THEN <<>>
    ELSE (IF /\ ~Contains(code, "import " \o Head(reqs))
             /\ ~Contains(code, "from " \o Head(reqs))
          THEN << "Missing recommended import: " \o Head(reqs) >>
          ELSE <<>>)
         \o RequiredImportWarnings(code, Tail(reqs))

\* _check_imports: warning messages
CheckImports(code) ==
    RequiredImportWarnings(code, REQUIRED_IMPORTS)
    \o (IF Contains(Lower(code), "math") /\ ~Contains(code, "import math")
        THEN << "Code mentions 'math' but doesn't import math module" >>
        ELSE <<>>)
    \o (IF Contains(Lower(code), "vector") /\ ~Contains(code, "from mathutils import")
        THEN << "Code mentions 'vector' but doesn't import from mathutils" >>
        ELSE <<>>)

\* _check_blender_api: warning messages
CheckBlenderApi(code) ==
    (IF ~(\/ Contains(code, "bpy.ops.object.select_all")
          \/ Contains(code, "bpy.ops.object.delete"))
     THEN << "Code doesn't clear existing objects - may cause conflicts" >>
     ELSE <<>>)
    \o (IF /\ Contains(code, "bpy.ops.mesh") \/ Contains(code, "bpy.ops.curve")
           /\ ~Contains(code, ".name =")
           /\ ~Contains(code, "name=")
        THEN << "Objects created but not named - may be hard to reference" >>
        ELSE <<>>)
    \o (IF /\ Contains(code, "bpy.ops.")
           /\ ~Contains(code, "bpy.context.view_layer.objects.active")
           /\ Count(code, "bpy.ops.") > 5
        THEN << "Many operations without setting active object - may cause issues" >>
        ELSE <<>>)
    \o (IF /\ Contains(code, "bpy.data.objects.new")
           /\ ~Contains(code, "scene.collection.objects.link")
           /\ ~Contains(code, "bpy.context.collection.objects.link")
        THEN << "Objects created but not linked to scene collection" >>
        ELSE <<>>)

\* Validate as it would be if the early return after a syntax failure handed
\* back True as its first component
ValidateSyntaxValid(code) ==
    IF ~CheckSyntax(code)[1]
    THEN [is_valid |-> TRUE, errors |-> CheckSyntax(code)[2], warnings |-> <<>>]
    ELSE LET errors == IF ~CheckSecurity(code)[1] THEN CheckSecurity(code)[2] ELSE <<>>
             warnings == CheckImports(code) \o CheckBlenderApi(code)
         IN  [is_valid |-> Len(errors) = 0, errors |-> errors, warnings |-> warnings]

\* Validate as it would be without the early return after a syntax failure
ValidateNoShortCircuit(code) ==
    LET errors == CheckSyntax(code)[2]
                  \o (IF ~CheckSecurity(code)[1] THEN CheckSecurity(code)[2] ELSE <<>>)
        warnings == CheckImports(code) \o CheckBlenderApi(code)
    IN  [is_valid |-> Len(errors) = 0, errors |-> errors, warnings |-> warnings]

\* Validate as it would be if stages 3 and 4 ran only after a clean security scan
ValidateWarningsOnlyIfSafe(code) ==
    IF ~CheckSyntax(code)[1]
    THEN [is_valid |-> FALSE, errors |-> CheckSyntax(code)[2], warnings |-> <<>>]
    ELSE IF ~CheckSecurity(code)[1]
    THEN [is_valid |-> FALSE, errors |-> CheckSecurity(code)[2], warnings |-> <<>>]
    ELSE [is_valid |-> TRUE, errors |-> <<>>,
          warnings |-> CheckImports(code) \o CheckBlenderApi(code)]

\* validate: the report (is_valid, errors, warnings)
Validate(code) ==
    IF ~CheckSyntax(code)[1]
    THEN [is_valid |-> FALSE, errors |-> CheckSyntax(code)[2], warnings |-> <<>>]
    ELSE LET errors == IF ~CheckSecurity(code)[1] THEN CheckSecurity(code)[2] ELSE <<>>
             warnings == CheckImports(code) \o CheckBlenderApi(code)
         IN  [is_valid |-> Len(errors) = 0, errors |-> errors, warnings |-> warnings]

(***************************************************************************)
(* BlenderAI.run (src/src/main.py): the retry loop around the generator    *)
(* and the validator, then the hand-over of the script to the executor.    *)
(* An Optional value is a list of length at most one: <<>> is None.        *)
(***************************************************************************)
\* Config.MAX_RETRIES
MAX_RETRIES == 3
\* Config.VALIDATE_CODE
VALIDATE_CODE == TRUE
\* Config.SAVE_FAILED_CODE
SAVE_FAILED_CODE == TRUE
\* Config.ARCHIVE_GENERATIONS
ARCHIVE_GENERATIONS == TRUE

None == <<>>

\* the max_retries arguments of run: None or an integer
MaxRetriesArgs == { None } \cup { <<n>> : n \in 0..MaxRetriesArg }

\* the validate arguments of run: None or a boolean
ValidateArgs == { None, <<TRUE>>, <<FALSE>> }

\* str(e) of the exceptions of generate_code that derive from Exception; an
\* exception raised without arguments has the empty message
ExcMessages == { "API error", "Connection error.", "" }

\* the exception of the user interrupting the program while it waits
KeyboardInterrupt == [ raised |-> "KeyboardInterrupt", message |-> "" ]

\* the exceptions that do not derive from Exception, which no
\* `except Exception` of the program catches
Interrupts == { KeyboardInterrupt, [ raised |-> "SystemExit", message |-> "1" ] }

\* How steps 4 and 5 of run can end: writing generated_<timestamp>.py raises,
\* and the exception leaves run ("unwritten"); execute_full_pipeline raises
\* before Blender is launched, the script not being readable or the combined
\* script not being written ("raised"); the user interrupts the wait for
\* Blender, and the exception leaves run ("interrupted"); Blender exits with 0
\* and the script is archived ("success"); Blender exits with 0 and the
\* archive copy fails, which _archive_generation only logs ("unarchived");
\* Blender fails and the failed_ copy is written ("failed"); Blender fails
\* and writing the failed_ copy raises ("unsaved").
ExecOutcomes ==
    { "unwritten", "raised", "interrupted", "success", "unarchived", "failed",
      "unsaved" }

\* Config.BLENDER_PATH
BLENDER_PATH == "blender"

\* what execute_script returns: (success, stdout, stderr) of the Blender
\* process, (False, "", "Execution timed out"), or (False, "", str(e)) for
\* another exception of subprocess.run: the executable is not found, or the
\* output of Blender is not UTF-8
ScriptOutcomes ==
    { << TRUE, "", "" >>,
      << FALSE, "", "Error: Python script failed\n" >>,
      << FALSE, "", "Execution timed out" >>,
      << FALSE, "", "[Errno 2] No such file or directory: '" \o BLENDER_PATH \o "'" >>,
      << FALSE, "", "'utf-8' codec can't decode byte 0xff in position 0: invalid start byte" >> }

(***************************************************************************)
(* The executor's pipeline (src/src/blender_executor.py): the script of    *)
(* run is combined with the render, export and save code and handed to     *)
(* Blender.                                                                *)
(***************************************************************************)
\* Config.AUTO_RENDER, Config.AUTO_SAVE, Config.AUTO_EXPORT
AUTO_RENDER == FALSE
AUTO_SAVE == TRUE
AUTO_EXPORT == FALSE
\* Config.EXPORT_FORMAT when the environment does not set it
EXPORT_FORMAT == "obj"
\* Config.RENDER_WIDTH, RENDER_HEIGHT, RENDER_SAMPLES, RENDER_ENGINE as they
\* are formatted into the script
RENDER_WIDTH == "1920"
RENDER_HEIGHT == "1080"
RENDER_SAMPLES == "128"
RENDER_ENGINE == "CYCLES"

\* valid_formats of Config.validate: the export formats a configuration may
\* name
valid_formats == << "obj", "fbx", "gltf", "stl", "ply" >>

\* the render, export and save arguments: None or a boolean
OptionalBools == { None, <<TRUE>>, <<FALSE>> }
PipelineArgs == [ render : OptionalBools, export : OptionalBools, save : OptionalBools ]

\* the arguments of a call that names none of render, export, save
NoPipelineArgs == [ render |-> None, export |-> None, save |-> None ]

\* x if x is not None else default
OrDefault(x, default) == IF x # None THEN x[1] ELSE default

\* datetime.now().strftime("%Y%m%d_%H%M%S") at the seconds in which the clock
\* is read, the earliest first
Stamps == << "20250101_120000", "20250101_120001", "20250101_120002" >>

\* the reading of the clock a function takes
timestamp(reading) == Stamps[reading]

\* two readings of the clock taken one after the other: the same second, or
\* the second a later one
ClockPairs ==
    { c \in (1..Len(Stamps)) \X (1..Len(Stamps)) : c[1] <= c[2] }

\* the paths execute_full_pipeline puts into results, for the stamp t
RenderPath(t) == "output/renders/render_" \o t \o ".png"
ExportPath(t, format) == "output/models/model_" \o t \o "." \o format
BlendPath(t) == "output/blend_files/scene_" \o t \o ".blend"

\* the files of Config.GENERATED_DIR for the stamp t: the script run saves,
\* the combined script, the copy of a failed candidate, the archive copy, and
\* the temporary script of execute_with_<kind> for the script of the stamp t
GeneratedPath(t) == "generated/generated_" \o t \o ".py"
CombinedPath(t) == "generated/combined_" \o t \o ".py"
FailedPath(t) == "generated/failed_" \o t \o ".py"
ArchivePath(t) == "generated/archive/generated_" \o t \o ".py"
TempPath(kind, t) == "generated/temp_" \o kind \o "_generated_" \o t \o ".py"

\* the script the functions of the executor are called on: one that run saved
ScriptPath == GeneratedPath(timestamp(1))

\* f.read() of a file opened in text mode: "\r\n" and "\r" are read as "\n"
ReadText(text) == Join(Split(Join(Split(text, "\r\n"), "\n"), "\r"), "\n")

\* the exceptions open(path, 'w') raises in a directory that exists, each with
\* its class and str(e): a directory has the name, or the file may not be
\* written
WriteErrors(path) ==
    { [ raised  |-> "IsADirectoryError",
        message |-> "[Errno 21] Is a directory: '" \o path \o "'" ],
      [ raised  |-> "PermissionError",
        message |-> "[Errno 13] Permission denied: '" \o path \o "'" ] }

\* the exceptions open(path) raises: those of WriteErrors (the file may not
\* be opened), or the file (or its directory) does not exist
OSErrors(path) ==
    WriteErrors(path)
    \cup { [ raised  |-> "FileNotFoundError",
             message |-> "[Errno 2] No such file or directory: '" \o path \o "'" ] }

\* the exceptions the flushing of the text raises once the file is open: the
\* device is full, or the file would exceed the size limit of the process
StageErrors ==
    { [ raised |-> "OSError", message |-> "[Errno 28] No space left on device" ],
      [ raised |-> "OSError", message |-> "[Errno 27] File too large" ] }

\* how much of a text a failed flush has put in the file: a part that is not
\* the whole text.  These are the lengths drawn.
Cuts(text) ==
    { n \in { 0, 1, Len(text) \div 2, Len(text) - 1 } : n >= 0 /\ n < Len(text) }

\* the character of the texts that is not ASCII
NonAscii == "→"

\* the encodings of a locale that do not encode NonAscii (open is called
\* without an encoding), each with the reason of its codec
Codecs ==
    { << "ascii", "ordinal not in range(128)" >>,
      << "latin-1", "ordinal not in range(256)" >>,
      << "charmap", "character maps to <undefined>" >> }

\* the exceptions f.write(text) raises when it encodes the text
EncodeErrors(text) ==
    IF ~Contains(text, NonAscii) THEN {}
    ELSE { [ raised  |-> "UnicodeEncodeError",
             message |-> "'" \o c[1] \o "' codec can't encode character '\\u2192'"
                         \o " in position " \o IntToStr(Index(text, NonAscii))
                         \o ": " \o c[2] ] : c \in Codecs }

\* `with open(path, 'w') as f: f.write(text)` ended without an exception
NoFailure == [ error |-> None, left |-> None ]

\* the ways `with open(path, 'w') as f: f.write(text)` fails for a text the
\* encoding encodes: open raises one of errs and there is no file, or the
\* file is created and the flush raises, which leaves the beginning of the
\* text.  error is the exception, left is None or the content of the file.
WriteFailures(errs, text) ==
    { [ error |-> e, left |-> None ] : e \in errs }
    \cup { [ error |-> e, left |-> << Prefix(text, n) >> ] :
             e \in StageErrors, n \in Cuts(text) }

\* the same for a text not yet encoded: f.write can also raise before
\* anything is put in the file that open created
FirstWriteFailures(errs, text) ==
    WriteFailures(errs, text)
    \cup { [ error |-> e, left |-> << "" >> ] : e \in EncodeErrors(text) }

\* the file of the kind a failed write leaves
Left(kind, w) == IF w.left = None THEN {} ELSE { << kind, w.left[1] >> }

\* the ways a function of the executor fails to make its script: the script
\* it is called on cannot be read, or the script it makes cannot be written
\* (a script that was read with NonAscii in it shows an encoding that encodes
\* it).
CreateFailures(script_path, path, script, content) ==
    { [ error |-> e, left |-> None ] : e \in OSErrors(script_path) }
    \cup (IF Contains(script, NonAscii)
          THEN WriteFailures(WriteErrors(path), content)
          ELSE FirstWriteFailures(WriteErrors(path), content))

\* export_ops.get(export_format), formatted into the script: the operator
\* call of the format, 'None' for a format the table does not have
ExportOp(format, export_path) ==
    IF format = "obj" THEN "bpy.ops.wm.obj_export(filepath=r'" \o export_path \o "')"
    ELSE IF format = "fbx" THEN "bpy.ops.export_scene.fbx(filepath=r'" \o export_path \o "')"
    ELSE IF format = "gltf" THEN "bpy.ops.export_scene.gltf(filepath=r'" \o export_path \o "')"
    ELSE IF format = "stl" THEN "bpy.ops.export_mesh.stl(filepath=r'" \o export_path \o "')"
    ELSE "None"

\* the render code of _create_combined_script
RenderCode(render_path) ==
    "\n# Render\n"
    \o "bpy.context.scene.render.filepath = r\"" \o render_path \o "\"\n"
    \o "bpy.context.scene.render.image_settings.file_format = 'PNG'\n"
    \o "bpy.context.scene.render.resolution_x = " \o RENDER_WIDTH \o "\n"
    \o "bpy.context.scene.render.resolution_y = " \o RENDER_HEIGHT \o "\n"
    \o "bpy.context.scene.render.engine = '" \o RENDER_ENGINE \o "'\n"
    \o "if bpy.context.scene.render.engine == 'CYCLES':\n"
    \o "    bpy.context.scene.cycles.samples = " \o RENDER_SAMPLES \o "\n"
    \o "bpy.ops.render.render(write_still=True)\n"
    \o "print(f\"Rendered to: " \o render_path \o "\")\n"

\* the export code of _create_combined_script
ExportCode(format, export_path) ==
    "\n# Export\n" \o ExportOp(format, export_path) \o "\n"
    \o "print(f\"Exported to: " \o export_path \o "\")\n"

\* the save code of _create_combined_script
SaveCode(blend_path) ==
    "\n# Save\n"
    \o "bpy.ops.wm.save_as_mainfile(filepath=r\"" \o blend_path \o "\")\n"
    \o "print(f\"Saved to: " \o blend_path \o "\")\n"

\* _create_combined_script: the text of combined_<timestamp>.py; each path is
\* None or a path
CreateCombinedScript(original_code, format, render_path, export_path, blend_path) ==
    LET additional_code ==
            "\nimport bpy\n"
            \o (IF render_path # None THEN RenderCode(render_path[1]) ELSE "")
            \o (IF export_path # None THEN ExportCode(format, export_path[1]) ELSE "")
            \o (IF blend_path # None THEN SaveCode(blend_path[1]) ELSE "")
    IN  original_code \o "\n" \o additional_code

\* execute_full_pipeline up to the execution: the render_path, export_path
\* and blend_path of results, each None or a path
PipelinePaths(args, format, t) ==
    [ render_path |-> IF OrDefault(args.render, AUTO_RENDER) THEN << RenderPath(t) >> ELSE None,
      export_path |-> IF OrDefault(args.export, AUTO_EXPORT) THEN << ExportPath(t, format) >> ELSE None,
      blend_path  |-> IF OrDefault(args.save, AUTO_SAVE) THEN << BlendPath(t) >> ELSE None ]

\* the script execute_full_pipeline hands to execute_script, for the content
\* text of the script file and the stamp t of the paths
FinalScript(text, args, format, t) ==
    LET paths == PipelinePaths(args, format, t)
    IN  CreateCombinedScript(ReadText(text), format, paths.render_path,
                             paths.export_path, paths.blend_path)

\* the dictionary execute_full_pipeline returns when execute_script has
\* returned r
PipelineResults(r, args, format, t) ==
    LET paths == PipelinePaths(args, format, t)
    IN  [ success     |-> r[1],
          stdout      |-> r[2],
          stderr      |-> r[3],
          render_path |-> paths.render_path,
          export_path |-> paths.export_path,
          blend_path  |-> paths.blend_path ]

\* _create_render_script: the text of temp_render_<stem>.py
CreateRenderScript(original_code, output_path) ==
    original_code \o "\n\n"
    \o "\n# Render configuration\nimport bpy\n\n"
    \o "bpy.context.scene.render.filepath = r\"" \o output_path \o "\"\n"
    \o "bpy.context.scene.render.image_settings.file_format = 'PNG'\n"
    \o "bpy.context.scene.render.resolution_x = " \o RENDER_WIDTH \o "\n"
    \o "bpy.context.scene.render.resolution_y = " \o RENDER_HEIGHT \o "\n"
    \o "bpy.context.scene.render.engine = '" \o RENDER_ENGINE \o "'\n\n"
    \o "if bpy.context.scene.render.engine == 'CYCLES':\n"
    \o "    bpy.context.scene.cycles.samples = " \o RENDER_SAMPLES \o "\n\n"
    \o "# Render\nbpy.ops.render.render(write_still=True)\n"
    \o "print(f\"Rendered to: " \o output_path \o "\")\n"

\* export_ops.get(export_format.lower()) of _create_export_script: the
\* operator call of the format, None for a format the table does not have
TempExportOp(format, export_path) ==
    LET f == Lower(format)
    IN  IF f = "obj" THEN << "bpy.ops.wm.obj_export(filepath=r'" \o export_path \o "')" >>
        ELSE IF f = "fbx" THEN << "bpy.ops.export_scene.fbx(filepath=r'" \o export_path \o "')" >>
        ELSE IF f = "gltf" THEN << "bpy.ops.export_scene.gltf(filepath=r'" \o export_path \o "')" >>
        ELSE IF f = "stl" THEN << "bpy.ops.export_mesh.stl(filepath=r'" \o export_path \o "')" >>
        ELSE IF f = "ply" THEN << "bpy.ops.export_mesh.ply(filepath=r'" \o export_path \o "')" >>
        ELSE None

\* _create_export_script: the text of temp_export_<stem>.py, for a format
\* the table has
CreateExportScript(original_code, export_path, format) ==
    original_code \o "\n\n"
    \o "\n# Export model\nimport bpy\n\n"
    \o TempExportOp(format, export_path)[1] \o "\n"
    \o "print(f\"Exported to: " \o export_path \o "\")\n"

\* _create_save_script: the text of temp_save_<stem>.py
CreateSaveScript(original_code, blend_path) ==
    original_code \o "\n\n"
    \o "\n# Save blend file\nimport bpy\n\n"
    \o "bpy.ops.wm.save_as_mainfile(filepath=r\"" \o blend_path \o "\")\n"
    \o "print(f\"Saved to: " \o blend_path \o "\")\n"

VARIABLES
    max_retries_arg,  \* the max_retries argument of run
    validate_arg,     \* the validate argument of run
    max_retries,      \* local max_retries after defaulting
    validate,         \* local validate after defaulting
    attempt,          \* local attempt
    code,             \* local code: None or the last candidate returned
    is_valid,         \* local is_valid
    errors,           \* local errors of the last validation
    warnings,         \* local warnings of the last validation
    pc,               \* in run: "loop", "after" (the loop is left) or "done";
                      \* in validate_code: "call" or "returned"
    report,           \* None or the last tuple returned by validate
    lastGen,          \* how the last generate_code call ended
    genCalls,         \* number of generate_code calls so far
    executed,         \* None or the script handed to the executor or to Blender
    execCalls,        \* number of execute_full_pipeline calls so far
    files,            \* the files written so far, as (kind, content) pairs
    result,           \* None, what the function returned, or the exception
                      \* that left it, with its class and message
    original,         \* None or the text first handed to auto_fix
    prompt,           \* None or the prompt handed to the prompt processor
    entities,         \* None or the entities handed to _assess_complexity
    processed,        \* None or what the prompt processor returned
    export_format,    \* Config.EXPORT_FORMAT
    pipeline_args     \* the render, export and save arguments of the pipeline

vars == << max_retries_arg, validate_arg, max_retries, validate, attempt, code,
           is_valid, errors, warnings, pc, report, lastGen, genCalls, executed,
           execCalls, files, result, original, prompt, entities, processed,
           export_format, pipeline_args >>

\* the variables of the code fixer and of the prompt processor
procvars == << original, prompt, entities, processed >>

\* the configuration and the arguments of the executor's pipeline
pipevars == << export_format, pipeline_args >>

\* Python truthiness of an Optional[int]
TruthyInt(x) == x # None /\ x[1] # 0

\* Python truthiness of an Optional[str]
TruthyStr(x) == x # None /\ x[1] # ""

\* max_retries or Config.MAX_RETRIES
DefaultRetries(arg) == IF TruthyInt(arg) THEN arg[1] ELSE MAX_RETRIES

\* validate if validate is not None else Config.VALIDATE_CODE
DefaultValidate(arg) == IF arg # None THEN arg[1] ELSE VALIDATE_CODE

\* LoopTest as it would be with an off-by-one test
LoopTestOffByOne(att, maxr) == IF att <= maxr THEN "loop" ELSE "after"

\* the test of the while statement
LoopTest(att, maxr) == IF att < maxr THEN "loop" ELSE "after"

Init ==
    /\ max_retries_arg \in MaxRetriesArgs
    /\ validate_arg \in ValidateArgs
    /\ max_retries = DefaultRetries(max_retries_arg)
    /\ validate = DefaultValidate(validate_arg)
    /\ attempt = 0
    /\ code = None
    /\ is_valid = FALSE
    /\ errors = <<>>
    /\ warnings = <<>>
    /\ pc = LoopTest(0, max_retries)
    /\ report = None
    /\ lastGen = "none"
    /\ genCalls = 0
    /\ executed = None
    /\ execCalls = 0
    /\ files = {}
    /\ result = None
    /\ original = None
    /\ prompt = None
    /\ entities = None
    /\ processed = None
    /\ export_format = EXPORT_FORMAT
    /\ pipeline_args = NoPipelineArgs

\* AfterValidation as it would be if warnings, too, asked for a regeneration
AfterValidationWarningsBlock(rep, att, maxr) ==
    IF (Len(rep.errors) > 0 \/ Len(rep.warnings) > 0) /\ att < maxr THEN "loop"
    ELSE IF rep.is_valid THEN "after"
    ELSE LoopTest(att, maxr)

\* where the body of the loop leaves control after a candidate was validated
AfterValidation(rep, att, maxr) ==
    IF Len(rep.errors) > 0 /\ att < maxr THEN "loop"        \* continue
    ELSE IF rep.is_valid THEN "after"                       \* break
    ELSE LoopTest(att, maxr)                                \* end of the body

\* One iteration of the loop in which generate_code returns the candidate c.
GenerateReturns(c) ==
    LET rep == Validate(c)
    IN  /\ pc = "loop"
        /\ attempt' = attempt + 1
        /\ genCalls' = genCalls + 1
        /\ lastGen' = "returned"
        /\ code' = <<c>>
        /\ IF validate
           THEN /\ report' = <<rep>>
                /\ is_valid' = rep.is_valid
                /\ errors' = rep.errors
                /\ warnings' = rep.warnings
                /\ pc' = AfterValidation(rep, attempt + 1, max_retries)
           ELSE /\ is_valid' = TRUE
                /\ pc' = "after"
                /\ UNCHANGED << report, errors, warnings >>
        /\ UNCHANGED << procvars, pipevars >>
        /\ UNCHANGED << max_retries_arg, validate_arg, max_retries, validate,
                        executed, execCalls, files, result >>

\* GenerateRaises as it would be if the exception of the last attempt were
\* swallowed like the others
GenerateRaisesSwallowed(e) ==
    /\ pc = "loop"
    /\ attempt' = attempt + 1
    /\ genCalls' = genCalls + 1
    /\ lastGen' = "raised"
    /\ pc' = LoopTest(attempt + 1, max_retries)
    /\ UNCHANGED << procvars, pipevars >>
    /\ UNCHANGED << max_retries_arg, validate_arg, max_retries, validate, code,
                    is_valid, errors, warnings, report, executed, execCalls,
                    files, result >>

\* One iteration of the loop in which generate_code raises an exception that
\* derives from Exception, whose message is e.
GenerateRaises(e) ==
    /\ pc = "loop"
    /\ attempt' = attempt + 1
    /\ genCalls' = genCalls + 1
    /\ lastGen' = "raised"
    /\ IF attempt + 1 >= max_retries
       THEN /\ result' = << [success |-> FALSE, error |-> e] >>
            /\ pc' = "done"
       ELSE /\ pc' = LoopTest(attempt + 1, max_retries)
            /\ UNCHANGED result
    /\ UNCHANGED << procvars, pipevars >>
    /\ UNCHANGED << max_retries_arg, validate_arg, max_retries, validate, code,
                    is_valid, errors, warnings, report, executed, execCalls,
                    files >>

\* One iteration of the loop in which generate_code raises the exception e
\* that does not derive from Exception: no handler of run catches it, and it
\* leaves run on whichever attempt it is raised.
GenerateInterrupted(e) ==
    /\ pc = "loop"
    /\ attempt' = attempt + 1
    /\ genCalls' = genCalls + 1
    /\ lastGen' = "raised"
    /\ result' = << e >>
    /\ pc' = "done"
    /\ UNCHANGED << procvars, pipevars >>
    /\ UNCHANGED << max_retries_arg, validate_arg, max_retries, validate, code,
                    is_valid, errors, warnings, report, executed, execCalls,
                    files >>

\* After the loop: no candidate, or an empty one.
NoCode ==
    /\ pc = "after"
    /\ ~TruthyStr(code)
    /\ result' = << [success |-> FALSE, error |-> "Failed to generate code"] >>
    /\ pc' = "done"
    /\ UNCHANGED << procvars, pipevars >>
    /\ UNCHANGED << max_retries_arg, validate_arg, max_retries, validate, attempt,
                    code, is_valid, errors, warnings, report, lastGen, genCalls,
                    executed, execCalls, files >>

\* the failures that end run in the way outcome, for the candidate text, the
\* combined script final, and the stamps t1 of run and t3 of the combined
\* script.  In step 5 the script has just been written: reading it can only
\* fail for a file that may be written and not read.
RunEnds(outcome, text, final, t1, t3) ==
    LET unreadable ==
            { [ error |-> e, left |-> None ] :
                e \in { x \in OSErrors(GeneratedPath(t1)) : x.raised = "PermissionError" } }
    IN  CASE outcome = "unwritten" ->
                 FirstWriteFailures(OSErrors(GeneratedPath(t1)), text)
          [] outcome = "raised" ->
                 unreadable \cup WriteFailures(WriteErrors(CombinedPath(t3)), final)
          [] outcome = "unsaved" ->
                 WriteFailures(WriteErrors(FailedPath(t1)), text)
          [] outcome = "unarchived" ->
                 unreadable
                 \cup WriteFailures(OSErrors(ArchivePath(t1)), ReadText(text))
          [] OTHER -> { NoFailure }

\* the files run and the pipeline leave behind for one way steps 4 and 5
\* end; w is the failure of that way.  The archive copy is what
\* _archive_generation reads of the script.
FilesWritten(text, final, outcome, w) ==
    (IF outcome = "unwritten" THEN Left("generated", w) ELSE { << "generated", text >> })
    \cup (CASE outcome = "unwritten" -> {}
            [] outcome = "raised"    -> Left("combined", w)
            [] OTHER                 -> { << "combined", final >> })
    \cup (CASE outcome = "failed" /\ SAVE_FAILED_CODE -> { << "failed", text >> }
            [] outcome = "unsaved"                   -> Left("failed", w)
            [] OTHER                                 -> {})
    \cup (CASE outcome = "success" /\ ARCHIVE_GENERATIONS ->
                   { << "archive", ReadText(text) >> }
            [] outcome = "unarchived" -> Left("archive", w)
            [] OTHER                  -> {})

\* After the loop: the candidate is saved and handed to execute_full_pipeline.
\* r is what execute_script returns when Blender has run; clock holds the
\* readings of execute_full_pipeline and of _create_combined_script, taken
\* after the reading of run.  An exception of step 4, and the interruption
\* of the wait for Blender, leave run; otherwise run returns the dictionary
\* of the pipeline, or {'success': False, 'error': str(e)} after an
\* exception of step 5.
SaveAndExecute(outcome, r, clock) ==
    /\ pc = "after"
    /\ TruthyStr(code)
    /\ outcome \in { "success", "unarchived" } => r[1]
    /\ outcome \in { "failed", "unsaved" } => ~r[1]
    /\ outcome = "unarchived" => ARCHIVE_GENERATIONS
    /\ outcome = "unsaved" => SAVE_FAILED_CODE
    /\ IF outcome = "unwritten"
       THEN UNCHANGED << executed, execCalls >>
       ELSE /\ executed' = code
            /\ execCalls' = execCalls + 1
    /\ LET final == FinalScript(code[1], pipeline_args, export_format,
                                timestamp(clock[1]))
       IN  \E w \in RunEnds(outcome, code[1], final, timestamp(1),
                            timestamp(clock[2])) :
               /\ files' = files \cup FilesWritten(code[1], final, outcome, w)
               /\ result' =
                      CASE outcome = "unwritten" -> << w.error >>
                        [] outcome = "interrupted" -> << KeyboardInterrupt >>
                        [] outcome \in { "raised", "unsaved" } ->
                               << [ success |-> FALSE, error |-> w.error.message ] >>
                        [] OTHER ->
                               << PipelineResults(r, pipeline_args, export_format,
                                                  timestamp(clock[1])) >>
    /\ pc' = "done"
    /\ UNCHANGED << procvars, pipevars >>
    /\ UNCHANGED << max_retries_arg, validate_arg, max_retries, validate, attempt,
                    code, is_valid, errors, warnings, report, lastGen, genCalls >>

Next ==
    \/ \E c \in Candidates : GenerateReturns(c)
    \/ \E e \in ExcMessages : GenerateRaises(e)
    \/ \E e \in Interrupts : GenerateInterrupted(e)
    \/ NoCode
    \/ \E o \in ExecOutcomes, r \in ScriptOutcomes, c \in ClockPairs :
           SaveAndExecute(o, r, c)

Spec == Init /\ [][Next]_vars

(***************************************************************************)
(* The public functions of the executor called directly on a script:       *)
(* execute_full_pipeline, for every export format a valid configuration    *)
(* may name and every choice of the render, export and save arguments, and *)
(* execute_script, execute_with_render, execute_with_export and            *)
(* execute_with_save.                                                      *)
(***************************************************************************)
\* the scripts the executor is called on
ScriptTexts == { "", "import bpy", "import bpy\r\nbpy.ops.mesh.add()\r" }

\* the output_path, export_path and blend_path arguments: None or a path
PathArgs == { None, << "out/result" >>, << "out/→" >> }

\* the export_format arguments of execute_with_export: None, a format of the
\* table in lower or upper case, or a format the table does not have
FormatArgs == { None, << "" >>, << "obj" >>, << "ply" >>, << "PLY" >>, << "dae" >> }

InitExport ==
    /\ max_retries_arg = None
    /\ validate_arg = None
    /\ max_retries = DefaultRetries(max_retries_arg)
    /\ validate = DefaultValidate(validate_arg)
    /\ attempt = 0
    /\ code \in { <<s>> : s \in ScriptTexts }
    /\ is_valid = FALSE
    /\ errors = <<>>
    /\ warnings = <<>>
    /\ pc = "pipeline"
    /\ report = None
    /\ lastGen = "none"
    /\ genCalls = 0
    /\ executed = None
    /\ execCalls = 0
    /\ files = {}
    /\ result = None
    /\ original = None
    /\ prompt = None
    /\ entities = None
    /\ processed = None
    /\ export_format \in Range(valid_formats)
    /\ pipeline_args \in PipelineArgs

\* what a call of a function of the executor leaves alone
execvars == << max_retries_arg, validate_arg, max_retries, validate, attempt,
               code, is_valid, errors, warnings, report, lastGen, genCalls,
               original, prompt, entities, processed, export_format,
               pipeline_args >>

\* A function of the executor makes its script of the kind, with the content,
\* and hands it to execute_script.  w is how the making ended: after a
\* failure the exception leaves the function and Blender is not run.  When
\* the user interrupts the wait for Blender, KeyboardInterrupt leaves the
\* function; otherwise returned is what the function returns.
CreateAndExecute(kind, content, w, interrupted, returned, pc_after) ==
    IF w.error # None
    THEN /\ files' = files \cup Left(kind, w)
         /\ result' = << w.error >>
         /\ pc' = "raised"
         /\ UNCHANGED << executed, execCalls >>
    ELSE /\ files' = files \cup { << kind, content >> }
         /\ executed' = << content >>
         /\ execCalls' = execCalls + 1
         /\ IF interrupted
            THEN result' = << KeyboardInterrupt >> /\ pc' = "raised"
            ELSE result' = << returned >> /\ pc' = pc_after

\* how the making of a script ends: without a failure, or with one
CreateEnds(path, content) ==
    { NoFailure } \cup CreateFailures(ScriptPath, path, code[1], content)

\* execute_full_pipeline(script_path, render, export, save) on the script in
\* code; r is what execute_script returns, clock the readings of
\* execute_full_pipeline and of _create_combined_script
ExecuteFullPipeline(r, interrupted, clock) ==
    LET final_script == FinalScript(code[1], pipeline_args, export_format,
                                    timestamp(clock[1]))
    IN  /\ pc = "pipeline"
        /\ \E w \in CreateEnds(CombinedPath(timestamp(clock[2])), final_script) :
               CreateAndExecute("combined", final_script, w, interrupted,
                                PipelineResults(r, pipeline_args, export_format,
                                                timestamp(clock[1])),
                                "done")
        /\ UNCHANGED execvars

\* the exceptions of execute_script before Blender is launched: the script
\* does not exist, or script_path.exists() raises because the directory of
\* the script may not be searched
ExistsErrors ==
    { [ raised  |-> "FileNotFoundError",
        message |-> "Script not found: " \o ScriptPath ],
      [ raised  |-> "PermissionError",
        message |-> "[Errno 13] Permission denied: '" \o ScriptPath \o "'" ] }

\* execute_script(script_path) on the script in code: Blender runs the file
\* as it is, and the tuple (success, stdout, stderr) is returned; e is None
\* or the exception raised before Blender is launched
ExecuteScript(r, interrupted, e) ==
    /\ pc = "pipeline"
    /\ IF e # None
       THEN /\ result' = << e >>
            /\ pc' = "raised"
            /\ UNCHANGED << executed, execCalls >>
       ELSE /\ executed' = code
            /\ execCalls' = execCalls + 1
            /\ IF interrupted
               THEN result' = << KeyboardInterrupt >> /\ pc' = "raised"
               ELSE result' = << r >> /\ pc' = "ran"
    /\ UNCHANGED files
    /\ UNCHANGED execvars

\* execute_with_render(script_path, output_path); reading is the reading of
\* the clock for an output_path of None
ExecuteWithRender(output_path, r, interrupted, reading) ==
    LET path == IF output_path = None THEN RenderPath(timestamp(reading))
                ELSE output_path[1]
        render_script == CreateRenderScript(ReadText(code[1]), path)
    IN  /\ pc = "pipeline"
        /\ \E w \in CreateEnds(TempPath("render", timestamp(1)), render_script) :
               CreateAndExecute("temp_render", render_script, w, interrupted, r,
                                "rendered")
        /\ UNCHANGED execvars

\* execute_with_export(script_path, export_path, export_format).  The script
\* is read first; then, for a format the table of _create_export_script does
\* not have, ValueError is raised before anything is written.
ExecuteWithExport(export_path, format_arg, r, interrupted, reading) ==
    LET format == IF TruthyStr(format_arg) THEN format_arg[1] ELSE export_format
        path == IF export_path = None THEN ExportPath(timestamp(reading), format)
                ELSE export_path[1]
        unsupported == [ error |-> [ raised  |-> "ValueError",
                                     message |-> "Unsupported export format: "
                                                 \o format ],
                         left  |-> None ]
    IN  /\ pc = "pipeline"
        /\ IF TempExportOp(format, path) = None
           THEN \E w \in { unsupported }
                         \cup { [ error |-> e, left |-> None ] :
                                  e \in OSErrors(ScriptPath) } :
                    CreateAndExecute("temp_export", "", w, interrupted, r, "exported")
           ELSE LET export_script ==
                        CreateExportScript(ReadText(code[1]), path, format)
                IN  \E w \in CreateEnds(TempPath("export", timestamp(1)),
                                        export_script) :
                        CreateAndExecute("temp_export", export_script, w,
                                         interrupted, r, "exported")
        /\ UNCHANGED execvars

\* execute_with_save(script_path, blend_path); reading is the reading of the
\* clock for a blend_path of None
ExecuteWithSave(blend_path, r, interrupted, reading) ==
    LET path == IF blend_path = None THEN BlendPath(timestamp(reading))
                ELSE blend_path[1]
        save_script == CreateSaveScript(ReadText(code[1]), path)
    IN  /\ pc = "pipeline"
        /\ \E w \in CreateEnds(TempPath("save", timestamp(1)), save_script) :
               CreateAndExecute("temp_save", save_script, w, interrupted, r, "saved")
        /\ UNCHANGED execvars

NextExport ==
    \/ \E r \in ScriptOutcomes, i \in BOOLEAN, c \in ClockPairs :
           ExecuteFullPipeline(r, i, c)
    \/ \E r \in ScriptOutcomes, i \in BOOLEAN, e \in { None } \cup ExistsErrors :
           ExecuteScript(r, i, e)
    \/ \E p \in PathArgs, r \in ScriptOutcomes, i \in BOOLEAN, t \in 1..Len(Stamps) :
           ExecuteWithRender(p, r, i, t)
    \/ \E p \in PathArgs, f \in FormatArgs, r \in ScriptOutcomes, i \in BOOLEAN,
          t \in 1..Len(Stamps) :
           ExecuteWithExport(p, f, r, i, t)
    \/ \E p \in PathArgs, r \in ScriptOutcomes, i \in BOOLEAN, t \in 1..Len(Stamps) :
           ExecuteWithSave(p, r, i, t)

SpecExport == InitExport /\ [][NextExport]_vars

(***************************************************************************)
(* validate_code (src/src/code_validator.py): one direct call of the       *)
(* validator on a source text.                                             *)
(***************************************************************************)
InitValidate ==
    /\ max_retries_arg = None
    /\ validate_arg = None
    /\ max_retries = DefaultRetries(max_retries_arg)
    /\ validate = DefaultValidate(validate_arg)
    /\ attempt = 0
    /\ code \in { <<s>> : s \in Sources }
    /\ is_valid = FALSE
    /\ errors = <<>>
    /\ warnings = <<>>
    /\ pc = "call"
    /\ report = None
    /\ lastGen = "none"
    /\ genCalls = 0
    /\ executed = None
    /\ execCalls = 0
    /\ files = {}
    /\ result = None
    /\ original = None
    /\ prompt = None
    /\ entities = None
    /\ processed = None
    /\ export_format = EXPORT_FORMAT
    /\ pipeline_args = NoPipelineArgs

ValidateCode ==
    /\ pc = "call"
    /\ report' = << Validate(code[1]) >>
    /\ pc' = "returned"
    /\ UNCHANGED << procvars, pipevars >>
    /\ UNCHANGED << max_retries_arg, validate_arg, max_retries, validate, attempt,
                    code, is_valid, errors, warnings, lastGen, genCalls, executed,
                    execCalls, files, result >>

NextValidate == ValidateCode

SpecValidate == InitValidate /\ [][NextValidate]_vars

(***************************************************************************)
(* Properties of the retry loop (checked under Spec) and of the validator  *)
(* (checked under SpecValidate).                                           *)
(***************************************************************************)
\* the text parses
Parses(text) == SyntaxErrorLine(text) = 0

\* a report of validate is at hand for the text in code
Validated == report # None /\ code # None

\* the last generate_code call of the run returned a candidate and that
\* candidate was validated
CandidateValidated == validate /\ lastGen = "returned"

\* C1: with validation enabled, a candidate for which validate returned a
\* non-empty errors list is never the script handed to execute_full_pipeline;
\* in particular nothing is executed when every attempt, the last included,
\* yields validation errors.
C1_RejectedCandidateNeverExecuted ==
    (validate /\ executed # None) => Len(Validate(executed[1]).errors) = 0

\* the number of attempts the caller asked for: the argument, or
\* Config.MAX_RETRIES when the argument is None
RequestedRetries ==
    IF max_retries_arg = None THEN MAX_RETRIES ELSE max_retries_arg[1]

\* C2, the part about single states: at most max_retries generate_code calls
\* are made; after a validation error with attempts remaining the run is back
\* at the head of the loop; once a candidate passes validation the loop is left.
C2_LoopState ==
    (max_retries_arg = None \/ max_retries_arg[1] >= 1) =>
        /\ genCalls <= RequestedRetries
        /\ attempt = genCalls
        /\ (CandidateValidated /\ Len(errors) > 0 /\ attempt < RequestedRetries)
               => pc = "loop"
        /\ (CandidateValidated /\ is_valid) => pc # "loop"

\* C2, the part about steps: each step taken at the head of the loop is one
\* fresh generate_code call and uses up one attempt, and once the loop is left
\* no generate_code call follows.
C2_LoopStep ==
    /\ pc = "loop" => (genCalls' = genCalls + 1 /\ attempt' = attempt + 1)
    /\ pc # "loop" => (genCalls' = genCalls /\ pc' # "loop")

\* C2: for every max_retries >= 1 (Config.MAX_RETRIES when the argument is
\* None) the retry loop ends after at most max_retries generate_code calls; a
\* validation error with attempts remaining is followed by a fresh
\* generate_code call, and a candidate that passed validation by none.
C2_BoundedRetryLoop == [](C2_LoopState) /\ [][C2_LoopStep]_vars

\* C2 witness: the default number of attempts is used up by candidates that
\* all failed validation.
C2_Witness ==
    /\ max_retries_arg = None
    /\ genCalls = MAX_RETRIES
    /\ CandidateValidated
    /\ Len(errors) > 0
    /\ pc = "after"

\* C3: when generate_code raises on a non-final attempt the run is back at the
\* head of the loop for the next attempt; when it raises on the final attempt
\* run has returned success = False with a non-empty error message, and the
\* executor was never invoked.
C3_GeneratorFailure ==
    lastGen = "raised" =>
        IF attempt < max_retries
        THEN pc = "loop" /\ result = None
        ELSE /\ pc = "done"
             /\ result # None
             /\ "success" \in DOMAIN result[1]
             /\ result[1].success = FALSE
             /\ result[1].error # ""
             /\ execCalls = 0
             /\ executed = None

\* C4: validate returns is_valid = true if and only if the errors it returns
\* are empty, after a syntax failure as well as after the full scan.
C4_ValidIffNoErrors ==
    Validated => (report[1].is_valid <=> Len(report[1].errors) = 0)

\* C4 witness: validate returned on the syntax-failure path.
C4_Witness == Validated /\ ~Parses(code[1]) /\ ~report[1].is_valid

\* C5: for a text that fails to parse validate returns is_valid = false, exactly
\* one error (the syntax error) and no warning, whatever the security, import
\* and API checks would have found in the text.
C5_SyntaxShortCircuit ==
    (Validated /\ ~Parses(code[1])) =>
        /\ report[1].is_valid = FALSE
        /\ Len(report[1].errors) = 1
        /\ report[1].errors = CheckSyntax(code[1])[2]
        /\ report[1].warnings = <<>>

\* C5 witness: an unparsable text in which the security scan and the import
\* check would both have found something.
C5_Witness ==
    /\ Validated
    /\ ~Parses(code[1])
    /\ ~CheckSecurity(code[1])[1]
    /\ Len(CheckImports(code[1])) > 0

\* C6: a parseable text that contains a deny-listed substring anywhere in its
\* raw text is returned with is_valid = false and an error naming the substring.
C6_DenyListRejects ==
    \A d \in Range(DANGEROUS_IMPORTS) :
        (Validated /\ Parses(code[1]) /\ Contains(code[1], d)) =>
            /\ report[1].is_valid = FALSE
            /\ ("Dangerous operation detected: " \o d) \in Range(report[1].errors)

\* C6 witness: a parseable text whose only occurrence of a deny-listed
\* substring lies in a comment.
C6_Witness ==
    /\ Validated
    /\ Parses(code[1])
    /\ Contains(code[1], "open")
    /\ IsInComment(code[1], "open")

\* on every line of the text that contains op, all occurrences of op come after
\* a comment marker
AllOccurrencesCommented(text, op) ==
    \A line \in Range(Split(text, "\n")) :
        Contains(line, op) =>
            (Contains(line, "#") /\ Index(line, "#") < Index(line, op))

\* some line of the text has op before any comment marker
SomeOccurrenceInCode(text, op) ==
    \E line \in Range(Split(text, "\n")) :
        /\ Contains(line, op)
        /\ (Contains(line, "#") => Index(line, op) < Index(line, "#"))

\* the construct an error message names: what follows ": "
NamedIn(message) == Suffix(message, Index(message, ": ") + 2)

\* the error was added on account of op: it names op or a part of op
OnAccountOf(message, op) == Contains(op, NamedIn(message))

\* C7: for a parseable text and each file operation op: if every occurrence of
\* op is commented, no error is added on account of op (so a text whose only
\* suspicious content is a commented file operation is valid); if some line
\* has op before any comment marker, an error is added.
C7_CommentedFileOpsAllowed ==
    \A op \in Range(file_ops) :
        (Validated /\ Parses(code[1]) /\ Contains(code[1], op)) =>
            /\ AllOccurrencesCommented(code[1], op) =>
                   \A e \in Range(report[1].errors) : ~OnAccountOf(e, op)
            /\ SomeOccurrenceInCode(code[1], op) =>
                   ("File operation detected: " \o op) \in Range(report[1].errors)

\* s.lstrip(" ")
RECURSIVE LStrip(_)
LStrip(s) ==
    IF Len(s) > 0 /\ SubSeq(s, 1, 1) = " " THEN LStrip(Suffix(s, 1)) ELSE s

\* the first dotted component of a module path: "a.b as c" gives "a"
RootModule(path) ==
    LET t == LStrip(path)
        ends == { i \in 0..Len(t) :
                    i = Len(t) \/ SubSeq(t, i + 1, i + 1) \in { ".", " " } }
    IN  Prefix(t, CHOOSE i \in ends : \A j \in ends : i <= j)

\* the modules a top-level line imports, by the grammar of the import statement
ImportedModules(line) ==
    IF StartsWith(line, "import ")
    THEN { RootModule(part) : part \in Range(Split(Suffix(line, 7), ",")) }
    ELSE IF StartsWith(line, "from ")
    THEN { RootModule(Suffix(line, 5)) }
    ELSE {}

\* the text has a top-level import statement of the module
ImportsModule(text, module) ==
    \E line \in Range(Split(text, "\n")) : module \in ImportedModules(line)

\* C8: a parseable text with a top-level import of urllib, requests, socket or
\* http, in any form of the import statement, is returned with an error
\* 'Network operation detected' and is_valid = false.
C8_NetworkImportRejected ==
    \A m \in Range(network_ops) :
        (Validated /\ Parses(code[1]) /\ ImportsModule(code[1], m)) =>
            /\ report[1].is_valid = FALSE
            /\ ("Network operation detected: " \o m) \in Range(report[1].errors)

\* C9 as stated: a candidate whose validation yields no error leaves the loop
\* on that attempt and goes to execution, whatever its warnings.
C9_NoErrorsMeansExecuted ==
    (CandidateValidated /\ Len(errors) = 0) =>
        /\ pc # "loop"
        /\ pc = "done" => (executed = code /\ execCalls = 1)

\* C9 amended: a candidate whose validation yields no error leaves the loop on
\* that attempt, whatever its warnings, and no regeneration follows a candidate
\* without errors; a non-empty such candidate is handed to the executor,
\* unless saving it as generated_<timestamp>.py raises, and then the
\* exception leaves run and the candidate is not handed to the executor; an
\* empty one makes run return 'Failed to generate code' without executing
\* anything.
C9_NoErrorsMeansAccepted ==
    /\ (CandidateValidated /\ Len(errors) = 0) =>
           /\ pc # "loop"
           /\ is_valid
           /\ (pc = "done" /\ TruthyStr(code)) =>
                  \/ executed = code /\ execCalls = 1
                  \/ /\ executed = None
                     /\ execCalls = 0
                     /\ "raised" \in DOMAIN result[1]
           /\ (pc = "done" /\ ~TruthyStr(code)) =>
                  /\ executed = None
                  /\ execCalls = 0
                  /\ result = << [success |-> FALSE, error |-> "Failed to generate code"] >>
    /\ (CandidateValidated /\ pc = "loop") => Len(errors) > 0

\* C9 witness: a candidate with two warnings and no error was executed.
C9_Witness ==
    /\ CandidateValidated
    /\ Len(errors) = 0
    /\ Len(warnings) >= 2
    /\ pc = "done"
    /\ executed = code

\* C10: for a parseable text the warnings of validate are the import warnings
\* followed by the API warnings, whether or not the security scan found errors.
C10_WarningsIndependentOfSecurity ==
    (Validated /\ Parses(code[1])) =>
        report[1].warnings = CheckImports(code[1]) \o CheckBlenderApi(code[1])

\* C10 witness: the security scan found errors in a text that also draws an
\* import warning and an API warning.
C10_Witness ==
    /\ Validated
    /\ Parses(code[1])
    /\ Len(report[1].errors) > 0
    /\ Len(CheckImports(code[1])) > 0
    /\ Len(CheckBlenderApi(code[1])) > 0
    /\ Len(report[1].warnings) >= 2

(***************************************************************************)
(* Properties of the import and API checks (checked under SpecValidate).   *)
(***************************************************************************)
\* the text has a call that clears the scene
ClearsScene(text) ==
    Contains(text, "bpy.ops.object.select_all") \/ Contains(text, "bpy.ops.object.delete")

\* the text creates objects with a mesh or curve operator and gives a name
NamesCreatedObjects(text) ==
    /\ Contains(text, "bpy.ops.mesh") \/ Contains(text, "bpy.ops.curve")
    /\ Contains(text, ".name =") \/ Contains(text, "name=")

\* C11: for a parseable text that imports bpy, has a scene-clearing call and
\* names the objects it creates, validate returns no error and no warning.
C11_CleanSourceNoFindings ==
    (/\ Validated
     /\ Parses(code[1])
     /\ ImportsModule(code[1], "bpy")
     /\ ClearsScene(code[1])
     /\ NamesCreatedObjects(code[1])) =>
        /\ Len(report[1].errors) = 0
        /\ Len(report[1].warnings) = 0

(***************************************************************************)
(* CodeValidator.auto_fix (src/src/code_validator.py): calls of the fixer  *)
(* on a source text and then on its own output.                            *)
(***************************************************************************)
\* the snippet auto_fix inserts to clear the scene
clear_code ==
    "# Clear existing objects\nbpy.ops.object.select_all(action='SELECT')\nbpy.ops.object.delete()\n\n"

\* import_end: one past the 0-based index of the last line that starts with
\* 'import ' or 'from ', 0 when there is none
ImportEnd(lines) ==
    LET hits == { i \in 1..Len(lines) :
                    StartsWith(lines[i], "import ") \/ StartsWith(lines[i], "from ") }
    IN  IF hits = {} THEN 0 ELSE CHOOSE i \in hits : \A j \in hits : j <= i

\* lines.insert(k, x) with 0 <= k <= len(lines)
Insert(lines, k, x) == SubSeq(lines, 1, k) \o <<x>> \o SubSeq(lines, k + 1, Len(lines))

\* AddImport as it would be without the test for an import already there
AddImportAlways(text) == "import bpy\n" \o text

\* the first fix: 'import bpy' is put in front of a text that has neither
\* 'import bpy' nor 'from bpy'
AddImport(text) ==
    IF ~Contains(text, "import bpy") /\ ~Contains(text, "from bpy")
    THEN "import bpy\n" \o text
    ELSE text

\* AddClearing as it would be if the snippet always went to the top of the text
AddClearingAtTop(text) ==
    IF ~Contains(text, "bpy.ops.object.select_all")
    THEN Join(Insert(Split(text, "\n"), 0, clear_code), "\n")
    ELSE text

\* the second fix: the clearing snippet is inserted after the last import
\* line of a text that has no 'bpy.ops.object.select_all'
AddClearing(text) ==
    IF ~Contains(text, "bpy.ops.object.select_all")
    THEN LET lines == Split(text, "\n")
         IN  Join(Insert(lines, ImportEnd(lines), clear_code), "\n")
    ELSE text

\* auto_fix(code)
AutoFix(text) == AddClearing(AddImport(text))

InitAutoFix ==
    /\ max_retries_arg = None
    /\ validate_arg = None
    /\ max_retries = DefaultRetries(max_retries_arg)
    /\ validate = DefaultValidate(validate_arg)
    /\ attempt = 0
    /\ code \in { <<s>> : s \in Sources }
    /\ is_valid = FALSE
    /\ errors = <<>>
    /\ warnings = <<>>
    /\ pc = "fix"
    /\ report = None
    /\ lastGen = "none"
    /\ genCalls = 0
    /\ executed = None
    /\ execCalls = 0
    /\ files = {}
    /\ result = None
    /\ original = None
    /\ prompt = None
    /\ entities = None
    /\ processed = None
    /\ export_format = EXPORT_FORMAT
    /\ pipeline_args = NoPipelineArgs

\* code = auto_fix(code): the first call keeps the text it was given in
\* original, the second call is made on the output of the first
AutoFixCall ==
    /\ pc \in { "fix", "fixed" }
    /\ original' = IF pc = "fix" THEN code ELSE original
    /\ code' = << AutoFix(code[1]) >>
    /\ pc' = IF pc = "fix" THEN "fixed" ELSE "refixed"
    /\ UNCHANGED << max_retries_arg, validate_arg, max_retries, validate, attempt,
                    is_valid, errors, warnings, report, lastGen, genCalls, executed,
                    execCalls, files, result, prompt, entities, processed >>
    /\ UNCHANGED pipevars

NextAutoFix == AutoFixCall

SpecAutoFix == InitAutoFix /\ [][NextAutoFix]_vars

\* C12: auto_fix is idempotent: the text returned by a second application,
\* made on the output of the first, is the output of the first; it holds one
\* 'import bpy' line and one clearing snippet at most more than the original.
C12_AutoFixIdempotent ==
    pc = "refixed" =>
        /\ code[1] = AutoFix(original[1])
        /\ Count(code[1], clear_code) <= Count(original[1], clear_code) + 1
        /\ Count(code[1], "import bpy") <= Count(original[1], "import bpy") + 1

\* C12 witness: the first application inserted both the import line and the
\* clearing snippet, and a second application was made.
C12_Witness ==
    /\ pc = "refixed"
    /\ ~Contains(original[1], "bpy")
    /\ Len(original[1]) > 0
    /\ StartsWith(code[1], "import bpy\n" \o clear_code)

(***************************************************************************)
(* PromptProcessor (src/src/prompt_processor.py).  A prompt is a TLA+      *)
(* string; the regular expressions of the processor are computed character *)
(* by character, with the matching order of Python's re module.            *)
(***************************************************************************)
\* text[i] as a one-character string, 0-based; "" outside the text
CharAt(text, i) == IF i >= 0 /\ i < Len(text) THEN SubSeq(text, i + 1, i + 1) ELSE ""

\* \s restricted to the whitespace of the prompts: blank, tab, newline
IsSpace(c) == c \in { " ", "\t", "\n" }

\* \d
IsDigit(c) == Len(c) = 1 /\ Contains(Digits, c)

\* \w
IsWordChar(c) ==
    Len(c) = 1 /\ (Contains(LowerCase, c) \/ Contains(UpperCase, c) \/ IsDigit(c) \/ c = "_")

\* \b at the 0-based position k of the text: exactly one of the characters
\* before and after the position is a word character
WordBoundary(text, k) == IsWordChar(CharAt(text, k - 1)) # IsWordChar(CharAt(text, k))

\* the first position at or after i whose character is not whitespace
RECURSIVE SkipSpace(_, _)
SkipSpace(text, i) ==
    IF i < Len(text) /\ IsSpace(CharAt(text, i)) THEN SkipSpace(text, i + 1) ELSE i

\* the first position at or after i whose character is whitespace, or the end
RECURSIVE SkipNonSpace(_, _)
SkipNonSpace(text, i) ==
    IF i < Len(text) /\ ~IsSpace(CharAt(text, i)) THEN SkipNonSpace(text, i + 1) ELSE i

\* text[i:].split(): the maximal runs of characters that are not whitespace
RECURSIVE WordsFrom(_, _)
WordsFrom(text, i) ==
    LET b == SkipSpace(text, i)
        e == SkipNonSpace(text, b)
    IN  IF b >= Len(text) THEN <<>>
        ELSE << SubSeq(text, b + 1, e) >> \o WordsFrom(text, e)

\* text.split()
Words(text) == WordsFrom(text, 0)

\* text.lstrip(chars)
RECURSIVE LStripChars(_, _)
LStripChars(text, chars) ==
    IF Len(text) > 0 /\ Contains(chars, CharAt(text, 0))
    THEN LStripChars(Suffix(text, 1), chars)
    ELSE text

\* text.rstrip(chars)
RECURSIVE RStripChars(_, _)
RStripChars(text, chars) ==
    IF Len(text) > 0 /\ Contains(chars, CharAt(text, Len(text) - 1))
    THEN RStripChars(Prefix(text, Len(text) - 1), chars)
    ELSE text

\* text.strip(chars)
StripChars(text, chars) == RStripChars(LStripChars(text, chars), chars)

\* the pattern \b old \b, case-insensitive, matches at the 0-based position i
WordMatchAt(text, i, old) ==
    /\ i + Len(old) <= Len(text)
    /\ Lower(SubSeq(text, i + 1, i + Len(old))) = old
    /\ WordBoundary(text, i)
    /\ WordBoundary(text, i + Len(old))

\* re.sub(r'\b' + old + r'\b', new, text, flags=re.IGNORECASE) from the
\* position i on: matches are replaced left to right and do not overlap
RECURSIVE ReSubFrom(_, _, _, _)
ReSubFrom(text, i, old, new) ==
    IF i >= Len(text) THEN ""
    ELSE IF WordMatchAt(text, i, old) THEN new \o ReSubFrom(text, i + Len(old), old, new)
    ELSE CharAt(text, i) \o ReSubFrom(text, i + 1, old, new)

\* re.sub(r'\b' + old + r'\b', new, text, flags=re.IGNORECASE)
ReSub(text, old, new) == ReSubFrom(text, 0, old, new)

\* the abbreviations of _clean_prompt, in the order of the dictionary
replacements ==
    << << "pls", "please" >>, << "plz", "please" >>, << "thx", "thanks" >>,
       << "w/", "with" >>, << "w/o", "without" >> >>

\* the loop over the abbreviations, from the k-th on
RECURSIVE Normalize(_, _)
Normalize(text, k) ==
    IF k > Len(replacements) THEN text
    ELSE Normalize(ReSub(text, replacements[k][1], replacements[k][2]), k + 1)

\* the characters _clean_prompt strips from both ends
StripSet == ".,!?;:"

\* _clean_prompt(prompt)
CleanPrompt(text) == Normalize(StripChars(Join(Words(text), " "), StripSet), 1)
\* PromptProcessor.CATEGORIES, in the order of the dictionary
CATEGORIES ==
    << << "modeling",
          << "create", "model", "mesh", "object", "shape", "geometry",
             "cube", "sphere", "cylinder", "cone", "torus", "plane",
             "extrude", "subdivide", "modifier", "boolean", "array",
             "character", "building", "furniture", "vehicle" >> >>,
       << "material",
          << "material", "shader", "texture", "color", "metallic",
             "roughness", "glossy", "diffuse", "bsdf", "principled",
             "procedural", "node", "glass", "metal", "wood", "stone" >> >>,
       << "scene",
          << "scene", "lighting", "light", "camera", "environment",
             "world", "hdri", "background", "sun", "lamp", "composition",
             "render", "setup", "studio" >> >>,
       << "animation",
          << "animate", "animation", "keyframe", "motion", "movement",
             "rotate", "translate", "scale", "path", "timeline",
             "bounce", "spin", "move", "frame" >> >> >>

\* sum(1 for keyword in keywords if keyword in text)
KeywordScore(text, keywords) ==
    Cardinality({ i \in 1..Len(keywords) : Contains(text, keywords[i]) })

\* scores: the score of every category, in the order of CATEGORIES
Scores(text) ==
    LET prompt_lower == Lower(text)
    IN  [ k \in 1..Len(CATEGORIES) |-> KeywordScore(prompt_lower, CATEGORIES[k][2]) ]

\* max(scores.values())
MaxScore(scores) == CHOOSE m \in Range(scores) : \A s \in Range(scores) : s <= m

\* IsHighScore as it would be with a threshold of 80% of the maximum
IsHighScoreEighty(score, max_score) == 10 * score >= 8 * max_score

\* score >= max_score * 0.7; for the integer scores of the four categories
\* the floating-point comparison agrees with the integer one
IsHighScore(score, max_score) == 10 * score >= 7 * max_score

\* high_scoring: the indices of the categories whose score is high
HighScoring(scores) ==
    { k \in 1..Len(scores) : IsHighScore(scores[k], MaxScore(scores)) }

\* CategoryOf as it would be without the default for a prompt with no keyword
CategoryOfNoDefault(scores) ==
    IF Cardinality(HighScoring(scores)) > 1 THEN "mixed"
    ELSE CATEGORIES[CHOOSE k \in 1..Len(scores) :
                        /\ scores[k] = MaxScore(scores)
                        /\ \A j \in 1..(k - 1) : scores[j] # MaxScore(scores)][1]

\* the category _categorize_prompt returns for the scores
CategoryOf(scores) ==
    IF MaxScore(scores) = 0 THEN "modeling"
    ELSE IF Cardinality(HighScoring(scores)) > 1 THEN "mixed"
    ELSE CATEGORIES[CHOOSE k \in 1..Len(scores) :
                        /\ scores[k] = MaxScore(scores)
                        /\ \A j \in 1..(k - 1) : scores[j] # MaxScore(scores)][1]

\* _categorize_prompt(prompt)
CategorizePrompt(text) == CategoryOf(Scores(text))
\* the first position at or after i whose character is not a digit
RECURSIVE SkipDigits(_, _)
SkipDigits(text, i) ==
    IF IsDigit(CharAt(text, i)) THEN SkipDigits(text, i + 1) ELSE i

\* the first position at or after i whose character is not a word character
RECURSIVE SkipWord(_, _)
SkipWord(text, i) ==
    IF IsWordChar(CharAt(text, i)) THEN SkipWord(text, i + 1) ELSE i

\* int(s) of a run of digits
RECURSIVE StrToInt(_)
StrToInt(s) ==
    IF Len(s) = 0 THEN 0
    ELSE 10 * StrToInt(Prefix(s, Len(s) - 1)) + Index(Digits, CharAt(s, Len(s) - 1))

\* the lists of names _extract_entities looks for
objects ==
    << "cube", "sphere", "cylinder", "cone", "torus", "plane",
       "tree", "house", "car", "chair", "table", "lamp" >>

colors ==
    << "red", "blue", "green", "yellow", "orange", "purple",
       "black", "white", "gray", "grey", "brown", "pink" >>

materials ==
    << "metal", "wood", "glass", "plastic", "stone",
       "gold", "silver", "copper", "steel", "concrete" >>

\* re.search(r'\b' + word + r'\b', text, re.IGNORECASE)
SearchWord(text, word) == \E i \in 0..Len(text) : WordMatchAt(text, i, word)

\* SearchWordPlural as it would be without the optional plural s
SearchWordNoPlural(text, word) == \E i \in 0..Len(text) : WordMatchAt(text, i, word)

\* re.search(r'\b' + word + r's?\b', text, re.IGNORECASE)
SearchWordPlural(text, word) ==
    \E i \in 0..Len(text) :
        /\ i + Len(word) <= Len(text)
        /\ Lower(SubSeq(text, i + 1, i + Len(word))) = word
        /\ WordBoundary(text, i)
        /\ \/ /\ Lower(CharAt(text, i + Len(word))) = "s"
              /\ WordBoundary(text, i + Len(word) + 1)
           \/ WordBoundary(text, i + Len(word))

\* the names of the list, from the k-th on, that the text holds with an
\* optional plural s
RECURSIVE FoundPlural(_, _, _)
FoundPlural(text, names, k) ==
    IF k > Len(names) THEN <<>>
    ELSE (IF SearchWordPlural(text, names[k]) THEN << names[k] >> ELSE <<>>)
         \o FoundPlural(text, names, k + 1)

\* the names of the list, from the k-th on, that the text holds as a word
RECURSIVE Found(_, _, _)
Found(text, names, k) ==
    IF k > Len(names) THEN <<>>
    ELSE (IF SearchWord(text, names[k]) THEN << names[k] >> ELSE <<>>)
         \o Found(text, names, k + 1)

\* re.findall(r'\b(\d+)\s+(\w+)', text) from the position i on, each match
\* as the pair (int(num), obj)
RECURSIVE QuantitiesFrom(_, _)
QuantitiesFrom(text, i) ==
    LET d == SkipDigits(text, i)
        s == SkipSpace(text, d)
        w == SkipWord(text, s)
    IN  IF i >= Len(text) THEN <<>>
        ELSE IF IsDigit(CharAt(text, i)) /\ WordBoundary(text, i) /\ s > d /\ w > s
        THEN << << StrToInt(SubSeq(text, i + 1, d)), SubSeq(text, s + 1, w) >> >>
             \o QuantitiesFrom(text, w)
        ELSE QuantitiesFrom(text, i + 1)

\* _extract_entities(prompt)
ExtractEntities(text) ==
    [ objects    |-> FoundPlural(text, objects, 1),
      colors     |-> Found(text, colors, 1),
      materials  |-> Found(text, materials, 1),
      quantities |-> QuantitiesFrom(text, 0) ]

(***************************************************************************)
(* Python floats.  A float is an IEEE-754 double: the record               *)
(* [mantissa, exponent] stands for mantissa * 2^exponent, with             *)
(* 2^52 <= mantissa < 2^53, and [mantissa |-> <<>>, exponent |-> 0] for    *)
(* 0.0.  A mantissa has 53 bits, so it is kept as a natural number in base *)
(* 2^15: the list of its digits, the least significant first, the empty    *)
(* list for 0.  Every operation rounds to nearest, ties to even, as the    *)
(* hardware does.                                                          *)
(***************************************************************************)
Base == 32768

\* 2 ** n for n < 31
RECURSIVE Pow2(_)
Pow2(n) == IF n = 0 THEN 1 ELSE 2 * Pow2(n - 1)

\* the number of bits of a natural below Base
RECURSIVE SmallBitLength(_)
SmallBitLength(n) == IF n = 0 THEN 0 ELSE 1 + SmallBitLength(n \div 2)

\* the natural n as a list of digits
RECURSIVE BigFromInt(_)
BigFromInt(n) == IF n = 0 THEN <<>> ELSE << n % Base >> \o BigFromInt(n \div Base)

\* a list of digits without leading zeros
RECURSIVE Trim(_)
Trim(a) ==
    IF Len(a) > 0 /\ a[Len(a)] = 0 THEN Trim(SubSeq(a, 1, Len(a) - 1)) ELSE a

\* a * c + carry for naturals c and carry below 2^16
RECURSIVE BigMulSmall(_, _, _)
BigMulSmall(a, c, carry) ==
    IF Len(a) = 0 THEN BigFromInt(carry)
    ELSE << (a[1] * c + carry) % Base >>
         \o BigMulSmall(Tail(a), c, (a[1] * c + carry) \div Base)

\* a + b + carry
RECURSIVE BigAdd(_, _, _)
BigAdd(a, b, carry) ==
    IF Len(a) = 0 /\ Len(b) = 0 THEN BigFromInt(carry)
    ELSE LET x == IF Len(a) = 0 THEN 0 ELSE a[1]
             y == IF Len(b) = 0 THEN 0 ELSE b[1]
         IN  << (x + y + carry) % Base >>
             \o BigAdd(IF Len(a) = 0 THEN a ELSE Tail(a),
                       IF Len(b) = 0 THEN b ELSE Tail(b),
                       (x + y + carry) \div Base)

\* a * b
RECURSIVE BigMul(_, _)
BigMul(a, b) ==
    IF Len(a) = 0 \/ Len(b) = 0 THEN <<>>
    ELSE Trim(BigAdd(BigMulSmall(a, b[1], 0), << 0 >> \o BigMul(a, Tail(b)), 0))

\* the digits i, i-1, ..., 1 of a divided by d, with rem carried in from the
\* digits above: << quotient digits, remainder >>, for 0 < d <= Base
RECURSIVE BigDivFrom(_, _, _, _)
BigDivFrom(a, d, i, rem) ==
    IF i = 0 THEN << <<>>, rem >>
    ELSE LET cur   == rem * Base + a[i]
             lower == BigDivFrom(a, d, i - 1, cur % d)
         IN  << lower[1] \o << cur \div d >>, lower[2] >>

\* << a div d, a mod d >>
BigDivSmall(a, d) ==
    LET r == BigDivFrom(a, d, Len(a), 0) IN << Trim(r[1]), r[2] >>

\* the number of bits of a
BigBitLength(a) ==
    IF Len(a) = 0 THEN 0 ELSE 15 * (Len(a) - 1) + SmallBitLength(a[Len(a)])

\* a * 2^k
BigShiftLeft(a, k) ==
    IF Len(a) = 0 THEN a
    ELSE [ i \in 1..(k \div 15) |-> 0 ] \o BigMulSmall(a, Pow2(k % 15), 0)

\* << a div 2^k, whether a bit that was shifted out is set >>
BigShiftRight(a, k) ==
    LET n     == IF k \div 15 < Len(a) THEN k \div 15 ELSE Len(a)
        upper == BigDivSmall(SubSeq(a, n + 1, Len(a)), Pow2(k % 15))
    IN  << upper[1], upper[2] # 0 \/ \E i \in 1..n : a[i] # 0 >>

\* 10 ** n
RECURSIVE BigPow10(_)
BigPow10(n) == IF n = 0 THEN << 1 >> ELSE BigMulSmall(BigPow10(n - 1), 10, 0)

\* << a div 10^n, whether a mod 10^n is not 0 or sticky is set >>
RECURSIVE BigDivPow10(_, _, _)
BigDivPow10(a, n, sticky) ==
    IF n = 0 THEN << a, sticky >>
    ELSE LET q == BigDivSmall(a, 10)
         IN  BigDivPow10(q[1], n - 1, sticky \/ q[2] # 0)

\* int(s) of a run of digits of any length
RECURSIVE BigFromDigits(_)
BigFromDigits(s) ==
    IF Len(s) = 0 THEN <<>>
    ELSE Trim(BigMulSmall(BigFromDigits(Prefix(s, Len(s) - 1)), 10,
                          Index(Digits, CharAt(s, Len(s) - 1))))

\* 0.0
Zero == [ mantissa |-> <<>>, exponent |-> 0 ]

\* The double nearest to x * 2^e, ties to even, where x is the natural n
\* plus, when sticky is set, a fraction strictly between 0 and 1; n has at
\* least 54 bits when sticky is set.
RoundToDouble(n, sticky, e) ==
    LET bits == BigBitLength(n)
    IN  IF bits = 0 THEN Zero
        ELSE IF bits <= 53
        THEN [ mantissa |-> BigShiftLeft(n, 53 - bits), exponent |-> e - (53 - bits) ]
        ELSE LET s       == bits - 53
                 shifted == BigShiftRight(n, s - 1)
                 halved  == BigDivSmall(shifted[1], 2)
                 q       == halved[1]
                 up      == halved[2] = 1 /\ (sticky \/ shifted[2] \/ q[1] % 2 = 1)
                 rounded == IF up THEN BigAdd(q, <<>>, 1) ELSE q
             IN  IF BigBitLength(rounded) = 54
                 THEN [ mantissa |-> BigDivSmall(rounded, 2)[1], exponent |-> e + s + 1 ]
                 ELSE [ mantissa |-> rounded, exponent |-> e + s ]

\* float(value) of a literal  digits [ . digits ]: the double nearest to the
\* decimal number
ToFloat(whole, decimals) ==
    LET n     == BigFromDigits(whole \o decimals)
        d     == Len(decimals)
        need  == 54 + BigBitLength(BigPow10(d)) - BigBitLength(n)
        k     == IF d = 0 \/ need < 0 THEN 0 ELSE need
        q     == BigDivPow10(BigShiftLeft(n, k), d, FALSE)
    IN  RoundToDouble(q[1], q[2], 0 - k)

\* a * b of two floats: the double nearest to the exact product
Times(a, b) ==
    RoundToDouble(BigMul(a.mantissa, b.mantissa), FALSE, a.exponent + b.exponent)

\* a == b of two floats
SameNumber(a, b) == a = b

\* PromptProcessor.UNITS, in the order of the dictionary; a factor is the
\* decimal literal of the source, << digits before the point, digits after >>
UNITS ==
    << << "cm", << "0", "01" >> >>,
       << "centimeter", << "0", "01" >> >>,
       << "mm", << "0", "001" >> >>,
       << "millimeter", << "0", "001" >> >>,
       << "m", << "1", "0" >> >>,
       << "meter", << "1", "0" >> >>,
       << "inch", << "0", "0254" >> >>,
       << "inches", << "0", "0254" >> >>,
       << "ft", << "0", "3048" >> >>,
       << "foot", << "0", "3048" >> >>,
       << "feet", << "0", "3048" >> >> >>

\* the unit of the table whose name, case-insensitively, is at the position
\* s of the text
UnitAt(text, s, k) ==
    /\ s + Len(UNITS[k][1]) <= Len(text)
    /\ Lower(SubSeq(text, s + 1, s + Len(UNITS[k][1]))) = UNITS[k][1]

\* FirstUnitAt as it would be if the regular expression tried the shortest
\* unit name first
ShortestUnitAt(text, s) ==
    LET hits == { k \in 1..Len(UNITS) : UnitAt(text, s, k) }
    IN  IF hits = {} THEN 0
        ELSE CHOOSE k \in hits : \A j \in hits : Len(UNITS[k][1]) <= Len(UNITS[j][1])

\* the alternative of (cm|centimeter|...|feet) the regular expression takes at
\* the position s: the first of the table that matches, 0 when none does
FirstUnitAt(text, s) ==
    LET hits == { k \in 1..Len(UNITS) : UnitAt(text, s, k) }
    IN  IF hits = {} THEN 0 ELSE CHOOSE k \in hits : \A j \in hits : k <= j

\* self.UNITS.get(unit.lower(), 1.0)
UnitFactor(unit) ==
    LET hits    == { k \in 1..Len(UNITS) : UNITS[k][1] = Lower(unit) }
        literal == IF hits = {} THEN << "1", "0" >> ELSE UNITS[CHOOSE k \in hits : TRUE][2]
    IN  ToFloat(literal[1], literal[2])

\* the record of one match (value, unit)
Measurement(whole, decimals, unit) ==
    LET value == ToFloat(whole, decimals)
    IN  [ original_value |-> value,
          original_unit  |-> unit,
          blender_value  |-> Times(value, UnitFactor(unit)),
          blender_unit   |-> "meters" ]

\* re.findall(r'(\d+\.?\d*)\s*(cm|...|feet)', text, re.IGNORECASE) from the
\* position i on, each match turned into its record
RECURSIVE MeasurementsFrom(_, _)
MeasurementsFrom(text, i) ==
    LET d1 == SkipDigits(text, i)
        d2 == IF CharAt(text, d1) = "." THEN d1 + 1 ELSE d1
        d3 == SkipDigits(text, d2)
        s  == SkipSpace(text, d3)
        k  == FirstUnitAt(text, s)
        e  == s + Len(UNITS[k][1])
    IN  IF i >= Len(text) THEN <<>>
        ELSE IF IsDigit(CharAt(text, i)) /\ k # 0
        THEN << Measurement(SubSeq(text, i + 1, d1), SubSeq(text, d2 + 1, d3),
                            SubSeq(text, s + 1, e)) >>
             \o MeasurementsFrom(text, e)
        ELSE MeasurementsFrom(text, i + 1)

\* ExtractMeasurements as it would be if only the first match were reported
ExtractMeasurementsFirstOnly(text) ==
    IF Len(MeasurementsFrom(text, 0)) > 0 THEN << MeasurementsFrom(text, 0)[1] >> ELSE <<>>

\* _extract_measurements(prompt)
ExtractMeasurements(text) == MeasurementsFrom(text, 0)
\* WordBand as it would be if every prompt of more than one word scored 3
WordBandNarrow(word_count) == IF word_count > 1 THEN 3 ELSE 1

\* the score of the word count
WordBand(word_count) ==
    IF word_count > 50 THEN 3 ELSE IF word_count > 20 THEN 2 ELSE 1

\* the score of the number of entities
EntityBand(total_entities) ==
    IF total_entities > 10 THEN 3 ELSE IF total_entities > 5 THEN 2 ELSE 1

\* sum(len(v) for v in entities.values())
TotalEntities(ents) ==
    Len(ents.objects) + Len(ents.colors) + Len(ents.materials) + Len(ents.quantities)

complex_keywords ==
    << "procedural", "animation", "rigging", "physics",
       "particle", "advanced", "realistic", "detailed" >>

\* any(keyword in prompt.lower() for keyword in complex_keywords)
HasComplexKeyword(text) ==
    LET prompt_lower == Lower(text)
    IN  \E k \in 1..Len(complex_keywords) : Contains(prompt_lower, complex_keywords[k])

\* ComplexityScore as it would be without the indicator keywords
ComplexityScoreNoKeywords(text, ents) ==
    WordBand(Len(Words(text))) + EntityBand(TotalEntities(ents))

\* the score _assess_complexity computes
ComplexityScore(text, ents) ==
    WordBand(Len(Words(text))) + EntityBand(TotalEntities(ents))
    + (IF HasComplexKeyword(text) THEN 2 ELSE 0)

\* ComplexityLevel as it would be with the medium level starting at 3
ComplexityLevelLow(score) ==
    IF score <= 2 THEN "simple" ELSE IF score <= 6 THEN "medium" ELSE "complex"

\* the level of a score
ComplexityLevel(score) ==
    IF score <= 3 THEN "simple" ELSE IF score <= 6 THEN "medium" ELSE "complex"

\* _assess_complexity(prompt, entities)
AssessComplexity(text, ents) == ComplexityLevel(ComplexityScore(text, ents))

\* the directives _enhance_prompt appends, with the category and the trigger
\* word of each, in the order of the if statements
directives ==
    << << "modeling", "scale", " Use realistic proportions and scales." >>,
       << "material", "node", " Use node-based materials with Principled BSDF." >>,
       << "scene", "camera", " Set up appropriate camera positioning." >> >>

\* the note _enhance_prompt appends when there are measurements
measurement_note == " (Note: measurements converted to Blender units)"

\* the k-th if statement of _enhance_prompt: what it appends, given
\* prompt.lower()
Directive(prompt_lower, category, k) ==
    IF category = directives[k][1] /\ ~Contains(prompt_lower, directives[k][2])
    THEN directives[k][3]
    ELSE ""

\* EnhancePrompt as it would be if the note came before the directives
EnhancePromptNoteFirst(text, category, measurements) ==
    LET prompt_lower == Lower(text)
    IN  text \o (IF Len(measurements) > 0 THEN measurement_note ELSE "")
             \o Directive(prompt_lower, category, 1) \o Directive(prompt_lower, category, 2)
             \o Directive(prompt_lower, category, 3)

\* _enhance_prompt(prompt, category, measurements)
EnhancePrompt(text, category, measurements) ==
    LET prompt_lower == Lower(text)
    IN  text \o Directive(prompt_lower, category, 1) \o Directive(prompt_lower, category, 2)
             \o Directive(prompt_lower, category, 3)
             \o (IF Len(measurements) > 0 THEN measurement_note ELSE "")

\* type_mapping of _get_prompt_type
type_mapping ==
    << << "modeling", "modeling" >>, << "material", "material" >>,
       << "scene", "scene" >>, << "animation", "animation" >>,
       << "mixed", "base" >> >>

\* _get_prompt_type with the category handed through unchanged
GetPromptTypeSameName(category) == category

\* _get_prompt_type(category): type_mapping.get(category, 'base')
GetPromptType(category) ==
    LET hits == { k \in 1..Len(type_mapping) : type_mapping[k][1] = category }
    IN  IF hits = {} THEN "base" ELSE type_mapping[CHOOSE k \in hits : TRUE][2]

\* prompt_files of Config.get_prompt_file: prompt type and the file under
\* PROMPTS_DIR
prompt_files ==
    << << "base", "base_system_prompt.txt" >>,
       << "modeling", "modeling_expert.txt" >>,
       << "material", "material_expert.txt" >>,
       << "scene", "scene_expert.txt" >>,
       << "animation", "animation_expert.txt" >> >>

\* prompt_files[key]
PromptFileOf(key) ==
    prompt_files[CHOOSE k \in 1..Len(prompt_files) : prompt_files[k][1] = key][2]

\* Config.get_prompt_file(prompt_type):
\* prompt_files.get(prompt_type, prompt_files["base"])
GetPromptFile(prompt_type) ==
    IF \E k \in 1..Len(prompt_files) : prompt_files[k][1] = prompt_type
    THEN PromptFileOf(prompt_type)
    ELSE PromptFileOf("base")

\* process(prompt): the dictionary it returns
Process(text) ==
    LET cleaned_prompt == CleanPrompt(text)
        category       == CategorizePrompt(cleaned_prompt)
        ents           == ExtractEntities(cleaned_prompt)
        measurements   == ExtractMeasurements(cleaned_prompt)
        complexity     == AssessComplexity(cleaned_prompt, ents)
    IN  [ original     |-> text,
          cleaned      |-> cleaned_prompt,
          enhanced     |-> EnhancePrompt(cleaned_prompt, category, measurements),
          category     |-> category,
          entities     |-> ents,
          measurements |-> measurements,
          complexity   |-> complexity,
          prompt_type  |-> GetPromptType(category) ]

(***************************************************************************)
(* Prompts.  A raw prompt is up to MaxTokens tokens of the library below   *)
(* separated by one blank (the empty token gives leading, trailing and     *)
(* doubled blanks), one of a few whole phrases, or a number followed by a  *)
(* unit word.                                                              *)
(***************************************************************************)
TokenLibrary ==
    { "", ".", "dog", "realistic", "cube", "metallic", "spin", "pls", "w/o",
      "10cm" }

TokenSeqs == UNION { [1..n -> TokenLibrary] : n \in 0..MaxTokens }

TokenPrompts == { Join(ts, " ") : ts \in TokenSeqs }

PhrasePrompts ==
    { "cube w/o edges",
      "a table w/ 4 legs",
      "PLS make a red cube, thx!",
      "create a cube mesh model with metallic glass",
      "  animate\tthe camera path ;",
      "3 red cubes and 12 blue spheres 1.5m apart",
      "blue spheres on 3 red cubes",
      "cubes of 10 20 and 30 cm",
      "5 minutes",
      "3 materials",
      "scale-model",
      "scale-model cube",
      "node",
      "camera",
      "lighting",
      "metallic lighting",
      "studio lighting with a camera",
      "glass material node" }

Numbers == { "10", "2.5", "5", "3" }

Separators == { "", " " }

UnitWords ==
    { "cm", "centimeter", "mm", "millimeter", "m", "meter", "inch", "inches",
      "ft", "foot", "feet", "centimeters", "millimeters", "meters", "CM", "Feet" }

MeasurePrompts ==
    { n \o sep \o u : n \in Numbers, sep \in Separators, u \in UnitWords }

RawPrompts == TokenPrompts \cup PhrasePrompts \cup MeasurePrompts

\* the category arguments of a direct call of _enhance_prompt
CategoryNames == { "modeling", "material", "scene", "animation", "mixed" }

\* the measurement arguments of a direct call of _enhance_prompt
MeasurementLists == { <<>>, ExtractMeasurements("10cm") }

InitPrompt ==
    /\ max_retries_arg = None
    /\ validate_arg = None
    /\ max_retries = DefaultRetries(max_retries_arg)
    /\ validate = DefaultValidate(validate_arg)
    /\ attempt = 0
    /\ code = None
    /\ is_valid = FALSE
    /\ errors = <<>>
    /\ warnings = <<>>
    /\ pc = "call"
    /\ report = None
    /\ lastGen = "none"
    /\ genCalls = 0
    /\ executed = None
    /\ execCalls = 0
    /\ files = {}
    /\ result = None
    /\ original = None
    /\ prompt \in { <<p>> : p \in RawPrompts }
    /\ entities = None
    /\ processed = None
    /\ export_format = EXPORT_FORMAT
    /\ pipeline_args = NoPipelineArgs

\* what a call of a method of the processor leaves alone
callvars == << max_retries_arg, validate_arg, max_retries, validate, attempt, code,
               is_valid, errors, warnings, report, lastGen, genCalls, executed,
               execCalls, files, result, original, prompt, entities,
               export_format, pipeline_args >>

\* _clean_prompt(prompt) is called and returns
CleanPromptCall ==
    /\ pc = "call"
    /\ processed' = << CleanPrompt(prompt[1]) >>
    /\ pc' = "cleaned"
    /\ UNCHANGED callvars

\* _categorize_prompt(prompt) is called and returns
CategorizePromptCall ==
    /\ pc = "call"
    /\ processed' = << CategorizePrompt(prompt[1]) >>
    /\ pc' = "categorized"
    /\ UNCHANGED callvars

\* _extract_entities(prompt) is called and returns
ExtractEntitiesCall ==
    /\ pc = "call"
    /\ processed' = << ExtractEntities(prompt[1]) >>
    /\ pc' = "extracted"
    /\ UNCHANGED callvars

\* _extract_measurements(prompt) is called and returns
ExtractMeasurementsCall ==
    /\ pc = "call"
    /\ processed' = << ExtractMeasurements(prompt[1]) >>
    /\ pc' = "measured"
    /\ UNCHANGED callvars

\* _enhance_prompt(prompt, category, measurements) is called and returns; the
\* arguments are kept with the text returned
EnhancePromptCall(category, measurements) ==
    /\ pc = "call"
    /\ processed' = << [ category     |-> category,
                         measurements |-> measurements,
                         enhanced     |-> EnhancePrompt(prompt[1], category, measurements) ] >>
    /\ pc' = "enhanced"
    /\ UNCHANGED callvars

\* process(prompt) is called and returns
ProcessCall ==
    /\ pc = "call"
    /\ processed' = << Process(prompt[1]) >>
    /\ pc' = "processed"
    /\ UNCHANGED callvars

\* categories _get_prompt_type is called with: the five of CATEGORIES and
\* 'mixed', and values that are none of them
CategoryArgs == CategoryNames \cup { "", "Modeling", "texture" }

\* prompt types get_prompt_file is called with: the keys of its table and
\* values that are none of them
PromptTypeArgs ==
    { prompt_files[k][1] : k \in 1..Len(prompt_files) } \cup { "", "mixed", "Base" }

\* _get_prompt_type(category) called directly
GetPromptTypeCall(category) ==
    /\ pc = "call"
    /\ processed' = << [ category    |-> category,
                         prompt_type |-> GetPromptType(category) ] >>
    /\ pc' = "typed"
    /\ UNCHANGED callvars

\* Config.get_prompt_file(prompt_type) called directly
GetPromptFileCall(prompt_type) ==
    /\ pc = "call"
    /\ processed' = << [ prompt_type |-> prompt_type,
                         prompt_file |-> GetPromptFile(prompt_type) ] >>
    /\ pc' = "located"
    /\ UNCHANGED callvars

NextPrompt ==
    \/ CleanPromptCall
    \/ CategorizePromptCall
    \/ ExtractEntitiesCall
    \/ ExtractMeasurementsCall
    \/ \E c \in CategoryNames, m \in MeasurementLists : EnhancePromptCall(c, m)
    \/ ProcessCall
    \/ \E c \in CategoryArgs : GetPromptTypeCall(c)
    \/ \E t \in PromptTypeArgs : GetPromptFileCall(t)

SpecPrompt == InitPrompt /\ [][NextPrompt]_vars

(***************************************************************************)
(* _assess_complexity called directly: a prompt of up to MaxWords words,   *)
(* with or without an indicator keyword as its first word, and an entity   *)
(* dictionary with up to MaxNames objects, no or MaxNames colors and up to  *)
(* one material.                                                           *)
(***************************************************************************)
\* n words separated by one blank, the first of them being the word first
RECURSIVE WordyPrompt(_, _)
WordyPrompt(first, n) ==
    IF n = 0 THEN ""
    ELSE IF n = 1 THEN first
    ELSE WordyPrompt(first, n - 1) \o " a"

FirstWords == { "a", "realistic", "Detailed" }

WordyPrompts == { WordyPrompt(f, n) : f \in FirstWords, n \in 0..MaxWords }

EntityDicts ==
    { [ objects    |-> SubSeq(objects, 1, a),
        colors     |-> SubSeq(colors, 1, b),
        materials  |-> SubSeq(materials, 1, c),
        quantities |-> <<>> ] : a \in 0..MaxNames, b \in { 0, MaxNames }, c \in 0..1 }

InitComplexity ==
    /\ max_retries_arg = None
    /\ validate_arg = None
    /\ max_retries = DefaultRetries(max_retries_arg)
    /\ validate = DefaultValidate(validate_arg)
    /\ attempt = 0
    /\ code = None
    /\ is_valid = FALSE
    /\ errors = <<>>
    /\ warnings = <<>>
    /\ pc = "call"
    /\ report = None
    /\ lastGen = "none"
    /\ genCalls = 0
    /\ executed = None
    /\ execCalls = 0
    /\ files = {}
    /\ result = None
    /\ original = None
    /\ prompt \in { <<p>> : p \in WordyPrompts }
    /\ entities \in { <<e>> : e \in EntityDicts }
    /\ processed = None
    /\ export_format = EXPORT_FORMAT
    /\ pipeline_args = NoPipelineArgs

\* _assess_complexity(prompt, entities) is called and returns
AssessComplexityCall ==
    /\ pc = "call"
    /\ processed' = << AssessComplexity(prompt[1], entities[1]) >>
    /\ pc' = "assessed"
    /\ UNCHANGED callvars

NextComplexity == AssessComplexityCall

SpecComplexity == InitComplexity /\ [][NextComplexity]_vars

(***************************************************************************)
(* Properties of the prompt processor (checked under SpecPrompt and, for   *)
(* _assess_complexity, under SpecComplexity).                              *)
(***************************************************************************)
\* no keyword of any category occurs in the text, upper or lower case
NoKeyword(text) ==
    LET lower == Lower(text)
    IN  \A k \in 1..Len(CATEGORIES) : \A i \in 1..Len(CATEGORIES[k][2]) :
            ~Contains(lower, CATEGORIES[k][2][i])

\* C13: _categorize_prompt returns one of modeling, material, scene, animation
\* and mixed, and it returns modeling for a prompt in which no keyword of any
\* category occurs; the category in the dictionary of process is one of the
\* five as well.
C13_CategoryClosedAndDefault ==
    /\ pc = "categorized" =>
           /\ processed[1] \in { "modeling", "material", "scene", "animation", "mixed" }
           /\ NoKeyword(prompt[1]) => processed[1] = "modeling"
    /\ pc = "processed" =>
           processed[1].category \in { "modeling", "material", "scene", "animation", "mixed" }

\* C13 witness: a prompt of two words without any keyword was categorized as
\* modeling.
C13_Witness ==
    /\ pc = "categorized"
    /\ Len(Words(prompt[1])) = 2
    /\ NoKeyword(prompt[1])
    /\ processed[1] = "modeling"

\* the categories whose score is at least 70% of the highest score
SeventyPercent(scores) ==
    { k \in 1..Len(scores) : 10 * scores[k] >= 7 * MaxScore(scores) }

\* what C14 says of a categorization: several categories at 70% of the highest
\* score give mixed, and a single category returned is the only one at 70% of
\* the highest score and has the highest score
MixedRule(scores, category) ==
    /\ Cardinality(SeventyPercent(scores)) >= 2 => category = "mixed"
    /\ category # "mixed" =>
           \E k \in 1..Len(scores) :
               /\ SeventyPercent(scores) = { k }
               /\ CATEGORIES[k][1] = category
               /\ scores[k] = MaxScore(scores)

\* C14 as stated: for every prompt, if at least two categories score 70% of
\* the highest category score or more, _categorize_prompt returns mixed, and a
\* single category it returns is the only one that scores 70% of the highest
\* score or more, and scores the highest.
C14_MixedRuleEveryPrompt ==
    pc = "categorized" => MixedRule(Scores(prompt[1]), processed[1])

\* C14 amended: the same, for every prompt in which a keyword of some
\* category occurs (the highest score is not 0); for a prompt without any
\* keyword all four categories score the highest score, 0, and modeling is
\* returned.
C14_MixedRuleScoredPrompt ==
    pc = "categorized" =>
        IF MaxScore(Scores(prompt[1])) > 0
        THEN MixedRule(Scores(prompt[1]), processed[1])
        ELSE processed[1] = "modeling"

\* C14 witness: a second category scored less than the highest score, but 70%
\* of it or more, and mixed was returned.
C14_Witness ==
    /\ pc = "categorized"
    /\ processed[1] = "mixed"
    /\ \E k \in SeventyPercent(Scores(prompt[1])) :
           Scores(prompt[1])[k] < MaxScore(Scores(prompt[1]))

\* the band of a word count: more than 50, more than 20, or neither
WordCountBand(n) == IF n > 50 THEN "over 50" ELSE IF n > 20 THEN "over 20" ELSE "up to 20"

\* the band of an entity count: more than 10, more than 5, or neither
EntityCountBand(n) == IF n > 10 THEN "over 10" ELSE IF n > 5 THEN "over 5" ELSE "up to 5"

\* two dictionaries returned by process have cleaned prompts in the same band
\* of word count and entities in the same band of entity count
SameBands(p, q) ==
    /\ WordCountBand(Len(Words(p.cleaned))) = WordCountBand(Len(Words(q.cleaned)))
    /\ EntityCountBand(TotalEntities(p.entities)) = EntityCountBand(TotalEntities(q.entities))

\* the prompts every processed prompt is compared with
ReferencePrompts == { "dog", "realistic dog" }

\* C15 as stated: a prompt that matches no keyword of the four categories is
\* processed as modeling, and any two such prompts in the same band of word
\* count and the same band of entity count get the same complexity.
C15_ComplexityFromCountsOnly ==
    (pc = "processed" /\ NoKeyword(prompt[1])) =>
        /\ processed[1].category = "modeling"
        /\ \A q \in ReferencePrompts :
               (NoKeyword(q) /\ SameBands(processed[1], Process(q))) =>
                   processed[1].complexity = Process(q).complexity

\* C15 amended: a prompt that matches no keyword of the four categories is
\* processed as modeling, and any two such prompts in the same band of word
\* count and the same band of entity count that both hold, or both lack, an
\* indicator keyword of _assess_complexity get the same complexity.
C15_ComplexityFromCountsAndIndicator ==
    (pc = "processed" /\ NoKeyword(prompt[1])) =>
        /\ processed[1].category = "modeling"
        /\ \A q \in ReferencePrompts :
               (/\ NoKeyword(q)
                /\ SameBands(processed[1], Process(q))
                /\ HasComplexKeyword(processed[1].cleaned) = HasComplexKeyword(Process(q).cleaned)) =>
                   processed[1].complexity = Process(q).complexity

\* C15 witness: a prompt without category keyword and with an indicator
\* keyword, other than the reference prompts, was processed as modeling and
\* medium.
C15_Witness ==
    /\ pc = "processed"
    /\ prompt[1] \notin ReferencePrompts
    /\ NoKeyword(prompt[1])
    /\ HasComplexKeyword(processed[1].cleaned)
    /\ Len(Words(processed[1].cleaned)) >= 2
    /\ processed[1].category = "modeling"
    /\ processed[1].complexity = "medium"

\* the score C16 gives to a word count
WordCountScore(n) == IF n > 50 THEN 3 ELSE IF n > 20 THEN 2 ELSE 1

\* the score C16 gives to an entity count
EntityCountScore(n) == IF n > 10 THEN 3 ELSE IF n > 5 THEN 2 ELSE 1

\* the lower-cased text has one of the advanced keywords as a substring
AdvancedKeyword(text) ==
    LET lower == Lower(text)
    IN  \E kw \in { "procedural", "animation", "rigging", "physics",
                    "particle", "advanced", "realistic", "detailed" } :
            Contains(lower, kw)

\* the score of C16 for the arguments of the call at hand
C16_Score ==
    WordCountScore(Len(Words(prompt[1])))
    + EntityCountScore(Len(entities[1].objects) + Len(entities[1].colors)
                       + Len(entities[1].materials) + Len(entities[1].quantities))
    + (IF AdvancedKeyword(prompt[1]) THEN 2 ELSE 0)

\* C16: _assess_complexity returns simple iff the score is at most 3, medium
\* iff it is 4, 5 or 6 and complex iff it is 7 or more, the score being the
\* band of the word count (over 50: 3, over 20: 2, else 1) plus the band of the
\* entity count (over 10: 3, over 5: 2, else 1) plus 2 when an advanced keyword
\* is a substring of the prompt.
C16_ComplexityBands ==
    pc = "assessed" =>
        LET score == C16_Score
        IN  /\ processed[1] = "simple" <=> score <= 3
            /\ processed[1] = "medium" <=> (4 <= score /\ score <= 6)
            /\ processed[1] = "complex" <=> score >= 7

\* C16 witness: 51 words, 6 entities and an advanced keyword score 3 + 2 + 2
\* and the prompt was assessed as complex.
C16_Witness ==
    /\ pc = "assessed"
    /\ Len(Words(prompt[1])) = 51
    /\ TotalEntities(entities[1]) = 6
    /\ AdvancedKeyword(prompt[1])
    /\ processed[1] = "complex"

\* the directive C17 gives for a category and a prompt: the one of the
\* category when its trigger word is absent from the prompt, none for
\* animation and mixed
DirectiveFor(category, text) ==
    LET lower == Lower(text)
    IN  IF category = "modeling" /\ ~Contains(lower, "scale")
        THEN " Use realistic proportions and scales."
        ELSE IF category = "material" /\ ~Contains(lower, "node")
        THEN " Use node-based materials with Principled BSDF."
        ELSE IF category = "scene" /\ ~Contains(lower, "camera")
        THEN " Set up appropriate camera positioning."
        ELSE ""

\* C17: _enhance_prompt returns the prompt unchanged, then at most one
\* directive, the one of the category, present iff the category is modeling,
\* material or scene and its trigger word scale, node or camera is absent, then
\* the measurement note, present iff the measurement list is not empty.
C17_EnhancedLayout ==
    pc = "enhanced" =>
        processed[1].enhanced =
            prompt[1]
            \o DirectiveFor(processed[1].category, prompt[1])
            \o (IF processed[1].measurements # <<>>
                THEN " (Note: measurements converted to Blender units)"
                ELSE "")

\* C17 witness: a prompt without the trigger word was enhanced for the
\* category material with a measurement, and both the directive and the note
\* follow the prompt.
C17_Witness ==
    /\ pc = "enhanced"
    /\ Len(prompt[1]) > 0
    /\ processed[1].category = "material"
    /\ processed[1].measurements # <<>>
    /\ processed[1].enhanced =
           prompt[1] \o " Use node-based materials with Principled BSDF."
                     \o " (Note: measurements converted to Blender units)"

\* the chat abbreviations of C18 and their full forms
Abbreviations == { "pls", "plz", "thx", "w/", "w/o" }

FullForm(abbreviation) ==
    CASE abbreviation = "pls" -> "please"
      [] abbreviation = "plz" -> "please"
      [] abbreviation = "thx" -> "thanks"
      [] abbreviation = "w/"  -> "with"
      [] abbreviation = "w/o" -> "without"

\* C18: _clean_prompt expands every whole-word occurrence of pls, plz, thx, w/
\* and w/o, in upper or lower case, to please, please, thanks, with and
\* without: a word of the raw prompt that is one of the abbreviations has its
\* full form among the words of the cleaned prompt, and 'cube w/o edges' is
\* cleaned to 'cube without edges'.
C18_AbbreviationsExpanded ==
    pc = "cleaned" =>
        /\ \A i \in 1..Len(Words(prompt[1])) :
               Lower(Words(prompt[1])[i]) \in Abbreviations =>
                   FullForm(Lower(Words(prompt[1])[i])) \in Range(Words(processed[1]))
        /\ prompt[1] = "cube w/o edges" => processed[1] = "cube without edges"

\* C19: the text _clean_prompt returns is whitespace-normalized (it neither
\* begins nor ends with whitespace and has no two whitespace characters in a
\* row) and neither begins nor ends with one of the characters . , ! ? ; :
C19_CleanedIsNormalized ==
    pc = "cleaned" =>
        /\ ~IsSpace(CharAt(processed[1], 0))
        /\ ~IsSpace(CharAt(processed[1], Len(processed[1]) - 1))
        /\ \A i \in 0..(Len(processed[1]) - 2) :
               ~(IsSpace(CharAt(processed[1], i)) /\ IsSpace(CharAt(processed[1], i + 1)))
        /\ \A c \in { ".", ",", "!", "?", ";", ":" } :
               /\ CharAt(processed[1], 0) # c
               /\ CharAt(processed[1], Len(processed[1]) - 1) # c

\* the conversion factors of C20, by the unit word the user wrote, singular or
\* plural, upper or lower case
FactorOf(unit) ==
    LET u       == Lower(unit)
        literal == CASE u \in { "cm", "centimeter", "centimeters" } -> << "0", "01" >>
                     [] u \in { "mm", "millimeter", "millimeters" } -> << "0", "001" >>
                     [] u \in { "m", "meter", "meters" }            -> << "1", "0" >>
                     [] u \in { "inch", "inches" }                  -> << "0", "0254" >>
                     [] u \in { "ft", "foot", "feet" }              -> << "0", "3048" >>
    IN  ToFloat(literal[1], literal[2])

\* the value of a literal of Numbers
LiteralValue(n) ==
    LET literal == CASE n = "10"  -> << "10", "" >>
                     [] n = "2.5" -> << "2", "5" >>
                     [] n = "5"   -> << "5", "" >>
                     [] n = "3"   -> << "3", "" >>
    IN  ToFloat(literal[1], literal[2])

\* C20: every record of _extract_measurements has the target unit meters and
\* a converted value equal to the literal value times the conversion factor of
\* the unit the user wrote: a prompt made of a number and a unit word gives one
\* record with the number times the factor of that word; 10cm gives 0.1,
\* 5 meters gives 5.0 and 2.5 feet gives 0.762.
C20_ConvertedValue ==
    pc = "measured" =>
        /\ \A i \in 1..Len(processed[1]) :
               /\ processed[1][i].blender_unit = "meters"
               /\ SameNumber(processed[1][i].blender_value,
                             Times(processed[1][i].original_value,
                                   FactorOf(processed[1][i].original_unit)))
        /\ \A n \in Numbers, sep \in Separators, u \in UnitWords :
               prompt[1] = n \o sep \o u =>
                   /\ Len(processed[1]) = 1
                   /\ SameNumber(processed[1][1].original_value, LiteralValue(n))
                   /\ SameNumber(processed[1][1].blender_value,
                                 Times(LiteralValue(n), FactorOf(u)))
        /\ prompt[1] = "10cm" => SameNumber(processed[1][1].blender_value, ToFloat("0", "1"))
        /\ prompt[1] = "5 meters" => SameNumber(processed[1][1].blender_value, ToFloat("5", "0"))
        /\ prompt[1] = "2.5 feet" => SameNumber(processed[1][1].blender_value, ToFloat("0", "762"))

\* C20 witness: the measurement of the prompt '2.5 feet' was extracted as one
\* record of 0.762 meters.
C20_Witness ==
    /\ pc = "measured"
    /\ prompt[1] = "2.5 feet"
    /\ Len(processed[1]) = 1
    /\ processed[1][1].blender_unit = "meters"
    /\ SameNumber(processed[1][1].blender_value, ToFloat("0", "762"))

(***************************************************************************)
(* Properties of the measurement and entity extraction (checked under      *)
(* SpecPrompt).                                                            *)
(***************************************************************************)
\* the end of the number that starts at the position i: digits, an optional
\* point, digits
NumberEnd(text, i) ==
    LET d1 == SkipDigits(text, i)
    IN  SkipDigits(text, IF CharAt(text, d1) = "." THEN d1 + 1 ELSE d1)

\* a number-unit occurrence starts at the position i: a number, optional
\* whitespace and a unit of the table
OccurrenceAt(text, i) ==
    /\ IsDigit(CharAt(text, i))
    /\ FirstUnitAt(text, SkipSpace(text, NumberEnd(text, i))) # 0

\* the positions at which a number-unit occurrence starts
Occurrences(text) == { i \in 0..(Len(text) - 1) : OccurrenceAt(text, i) }

\* the end of the occurrence that starts at the position i
OccurrenceEnd(text, i) ==
    LET s == SkipSpace(text, NumberEnd(text, i))
    IN  s + Len(UNITS[FirstUnitAt(text, s)][1])

\* the occurrences that do not start inside another occurrence
OuterOccurrences(text) ==
    { i \in Occurrences(text) :
        \A j \in Occurrences(text) : ~(j < i /\ i < OccurrenceEnd(text, j)) }

\* the records are the occurrences at the positions, in left-to-right order
RecordsAre(records, text, positions) ==
    /\ Len(records) = Cardinality(positions)
    /\ \A i \in positions :
           LET k  == Cardinality({ j \in positions : j <= i })
               d1 == SkipDigits(text, i)
               d2 == IF CharAt(text, d1) = "." THEN d1 + 1 ELSE d1
               s  == SkipSpace(text, NumberEnd(text, i))
           IN  /\ records[k].original_unit = SubSeq(text, s + 1, OccurrenceEnd(text, i))
               /\ SameNumber(records[k].original_value,
                             ToFloat(SubSeq(text, i + 1, d1),
                                     SubSeq(text, d2 + 1, NumberEnd(text, i))))

\* C21 as stated: _extract_measurements reports every number-unit occurrence
\* of the prompt as a record of its own, in left-to-right order, duplicates
\* and occurrences that overlap another match included.
C21_EveryOccurrenceReported ==
    pc = "measured" => RecordsAre(processed[1], prompt[1], Occurrences(prompt[1]))

\* C21 amended: _extract_measurements reports, in left-to-right order and
\* with duplicates kept, every number-unit occurrence that does not start
\* inside another occurrence; an occurrence that shares characters with an
\* earlier match (the '0cm' inside '10cm') is not reported.
C21_OuterOccurrencesReported ==
    pc = "measured" => RecordsAre(processed[1], prompt[1], OuterOccurrences(prompt[1]))

\* C21 witness: a prompt with the same measurement twice, each holding an
\* occurrence inside it, gave two equal records.
C21_Witness ==
    /\ pc = "measured"
    /\ Len(processed[1]) = 2
    /\ processed[1][1] = processed[1][2]
    /\ Cardinality(Occurrences(prompt[1])) = 4

\* the term occurs in the text as a whole word, in upper or lower case: no
\* word character stands before or after it
WholeWord(text, term) ==
    \E i \in 0..(Len(text) - Len(term)) :
        /\ Lower(SubSeq(text, i + 1, i + Len(term))) = term
        /\ ~IsWordChar(CharAt(text, i - 1))
        /\ ~IsWordChar(CharAt(text, i + Len(term)))

\* the list holds terms of the vocabulary only, each at most once and in the
\* order of the vocabulary
InVocabularyOrder(list, vocabulary) ==
    /\ \A k \in 1..Len(list) : list[k] \in Range(vocabulary)
    /\ \A k \in 1..(Len(list) - 1) :
           \E a \in 1..Len(vocabulary), b \in 1..Len(vocabulary) :
               a < b /\ vocabulary[a] = list[k] /\ vocabulary[b] = list[k + 1]

\* a 'digits whitespace word' occurrence starts at the position i
QuantityAt(text, i) ==
    /\ IsDigit(CharAt(text, i))
    /\ ~IsWordChar(CharAt(text, i - 1))
    /\ IsSpace(CharAt(text, SkipDigits(text, i)))
    /\ IsWordChar(CharAt(text, SkipSpace(text, SkipDigits(text, i))))

\* the positions at which a 'digits whitespace word' occurrence starts
QuantityPositions(text) == { i \in 0..(Len(text) - 1) : QuantityAt(text, i) }

\* the end of the 'digits whitespace word' occurrence that starts at i
QuantityEnd(text, i) == SkipWord(text, SkipSpace(text, SkipDigits(text, i)))

\* the pairs are the occurrences at the positions, in left-to-right order
PairsAre(pairs, text, positions) ==
    /\ Len(pairs) = Cardinality(positions)
    /\ \A i \in positions :
           LET k == Cardinality({ j \in positions : j <= i })
           IN  /\ pairs[k][1] = StrToInt(SubSeq(text, i + 1, SkipDigits(text, i)))
               /\ pairs[k][2] = SubSeq(text, SkipSpace(text, SkipDigits(text, i)) + 1,
                                       QuantityEnd(text, i))

\* C22 as stated: each of the lists objects, colors and materials holds each
\* term of its vocabulary at most once, in the order of the vocabulary, and
\* holds a term iff the term occurs as a whole word in the prompt; quantities
\* holds one (integer, word) pair for every 'digits whitespace word'
\* occurrence, in left-to-right order, duplicates kept.
C22_EntitiesByWholeWord ==
    pc = "extracted" =>
        /\ InVocabularyOrder(processed[1].objects, objects)
        /\ InVocabularyOrder(processed[1].colors, colors)
        /\ InVocabularyOrder(processed[1].materials, materials)
        /\ \A k \in 1..Len(objects) :
               objects[k] \in Range(processed[1].objects) <=> WholeWord(prompt[1], objects[k])
        /\ \A k \in 1..Len(colors) :
               colors[k] \in Range(processed[1].colors) <=> WholeWord(prompt[1], colors[k])
        /\ \A k \in 1..Len(materials) :
               materials[k] \in Range(processed[1].materials) <=> WholeWord(prompt[1], materials[k])
        /\ PairsAre(processed[1].quantities, prompt[1], QuantityPositions(prompt[1]))

\* C22 amended: the same, except that objects holds a term iff the term, or
\* the term followed by s, occurs as a whole word, and that quantities holds
\* the pairs of a left-to-right scan which resumes after each match: the
\* reported occurrences do not overlap, and every occurrence that is not
\* reported starts inside a reported one.
C22_EntitiesByWordOrPlural ==
    pc = "extracted" =>
        /\ InVocabularyOrder(processed[1].objects, objects)
        /\ InVocabularyOrder(processed[1].colors, colors)
        /\ InVocabularyOrder(processed[1].materials, materials)
        /\ \A k \in 1..Len(objects) :
               objects[k] \in Range(processed[1].objects) <=>
                   (WholeWord(prompt[1], objects[k]) \/ WholeWord(prompt[1], objects[k] \o "s"))
        /\ \A k \in 1..Len(colors) :
               colors[k] \in Range(processed[1].colors) <=> WholeWord(prompt[1], colors[k])
        /\ \A k \in 1..Len(materials) :
               materials[k] \in Range(processed[1].materials) <=> WholeWord(prompt[1], materials[k])
        /\ \E reported \in SUBSET QuantityPositions(prompt[1]) :
               /\ \A i \in reported, j \in reported :
                      i < j => QuantityEnd(prompt[1], i) <= j
               /\ \A i \in QuantityPositions(prompt[1]) \ reported :
                      \E j \in reported : j < i /\ i < QuantityEnd(prompt[1], j)
               /\ PairsAre(processed[1].quantities, prompt[1], reported)

\* C22 witness: the prompt names a sphere before a cube and blue before red,
\* in the plural, and the lists are in vocabulary order, with one quantity.
C22_Witness ==
    /\ pc = "extracted"
    /\ prompt[1] = "blue spheres on 3 red cubes"
    /\ processed[1].objects = << "cube", "sphere" >>
    /\ processed[1].colors = << "red", "blue" >>
    /\ processed[1].quantities = << << 3, "red" >> >>

(***************************************************************************)
(* C23: the prompt type is a function of the category alone, always a key  *)
(* of the prompt file table, and the table falls back to 'base'            *)
(***************************************************************************)

\* the prompt type the specification gives a category
TypeFor(category) ==
    IF category \in { "modeling", "material", "scene", "animation" }
    THEN category
    ELSE "base"

\* the keys of the table of get_prompt_file
PromptFileKeys == { "base", "modeling", "material", "scene", "animation" }

\* C23: whatever the category, process and _get_prompt_type give the prompt
\* type that belongs to the category (the four specialised categories map to
\* themselves, 'mixed' and every other value to 'base'); that prompt type is
\* a key of the table of get_prompt_file; and get_prompt_file gives the file
\* of the key it is asked for when the table has it, the file of 'base'
\* otherwise.
C23_PromptTypeFromCategory ==
    /\ pc \in { "processed", "typed" } =>
          /\ processed[1].prompt_type = TypeFor(processed[1].category)
          /\ processed[1].prompt_type \in PromptFileKeys
          /\ GetPromptFile(processed[1].prompt_type)
                 = PromptFileOf(processed[1].prompt_type)
    /\ pc = "located" =>
          /\ \E k \in 1..Len(prompt_files) :
                prompt_files[k][2] = processed[1].prompt_file
          /\ processed[1].prompt_type \in PromptFileKeys =>
                processed[1].prompt_file = PromptFileOf(processed[1].prompt_type)
          /\ processed[1].prompt_type \notin PromptFileKeys =>
                processed[1].prompt_file = "base_system_prompt.txt"

\* a category that is none of the known ones was given the type 'base'
C23_Witness ==
    /\ pc = "typed"
    /\ processed[1].category \notin CategoryNames
    /\ processed[1].prompt_type = "base"

(***************************************************************************)
(* C24: what a failed run leaves on disk                                   *)
(***************************************************************************)

\* the run has returned a dictionary whose success is False, or has raised
RunFailed ==
    /\ pc = "done"
    /\ result # None
    /\ "success" \in DOMAIN result[1] => ~result[1].success

\* C24: when run ends in failure, the only file it has written is the
\* failed_ copy of the candidate, and that one only when SAVE_FAILED_CODE is
\* set: no generated_ script, no combined_ script and no archive copy.
C24_FailedRunKeepsOnlyFailedCopy ==
    RunFailed => \A f \in files : f[1] = "failed" /\ SAVE_FAILED_CODE

(***************************************************************************)
(* C25: which candidate reaches the execution host                         *)
(***************************************************************************)

\* C25: the execution host is invoked at most once in a run, and at the step
\* that invokes it the last generate_code call of the run had returned (not
\* raised) and the program handed over is the candidate that call returned:
\* never a candidate of an earlier attempt with a failed attempt after it.
C25_ExecutesLatestCandidate ==
    /\ [](execCalls <= 1)
    /\ [][ execCalls' # execCalls =>
              /\ execCalls = 0
              /\ lastGen = "returned"
              /\ code # None
              /\ executed' = code ]_vars

\* the candidate of a second or later attempt was executed
C25_Witness ==
    /\ execCalls = 1
    /\ genCalls >= 2
    /\ lastGen = "returned"
    /\ executed = code

(***************************************************************************)
(* C26: a file operation is excused only when it really is in a comment    *)
(***************************************************************************)

\* The position of the '#' that starts the comment of a line, Len(line) + 1
\* when the line has no comment: the first '#' that is outside a string
\* literal.  quote is the delimiter of the literal the scan is in, "" outside.
RECURSIVE CommentStartFrom(_, _, _)
CommentStartFrom(line, i, quote) ==
    IF i > Len(line) THEN Len(line) + 1
    ELSE LET c == SubSeq(line, i, i)
         IN  IF quote = ""
             THEN IF c = "#" THEN i
                  ELSE IF c \in { "'", "\"" }
                       THEN CommentStartFrom(line, i + 1, c)
                       ELSE CommentStartFrom(line, i + 1, "")
             ELSE IF c = quote
                  THEN CommentStartFrom(line, i + 1, "")
                  ELSE CommentStartFrom(line, i + 1, quote)

CommentStart(line) == CommentStartFrom(line, 1, "")

\* op occurs on some line of the text before the comment of the line starts
InExecutableCode(text, op) ==
    \E line \in Range(Split(text, "\n")) :
        \E i \in 1..Len(line) :
            /\ i + Len(op) - 1 <= Len(line)
            /\ SubSeq(line, i, i + Len(op) - 1) = op
            /\ i < CommentStart(line)

\* the file operations of the claim
CallOps == { "write(", "read(", "remove(", "unlink(" }

\* C26: every parseable text that has write(, read(, remove( or unlink( in
\* executable code, outside every comment, is rejected by validate with the
\* error 'File operation detected: <op>', also when a '#' stands earlier on
\* the line inside a string literal.
C26_ExecutableFileOpsRejected ==
    \A op \in CallOps :
        (Validated /\ Parses(code[1]) /\ InExecutableCode(code[1], op)) =>
            /\ ~report[1].is_valid
            /\ ("File operation detected: " \o op) \in Range(report[1].errors)

(***************************************************************************)
(* C27: auto_fix and validate on what clears the scene                     *)
(***************************************************************************)

\* the warning of the API check for a text that does not clear the scene
ClearingWarning == "Code doesn't clear existing objects - may cause conflicts"

\* the first auto_fix call put the clearing snippet into the text
SnippetInjected ==
    Count(code[1], clear_code) > Count(original[1], clear_code)

\* C27: auto_fix puts the clearing snippet into a text exactly when the API
\* check of validate emits the 'Code doesn't clear existing objects' warning
\* for that text, and validate applied to the output of auto_fix emits
\* neither that warning nor 'Missing recommended import: bpy'.
C27_AutoFixAgreesWithValidate ==
    pc = "fixed" =>
        /\ SnippetInjected <=> ClearingWarning \in Range(CheckBlenderApi(original[1]))
        /\ LET after == Range(Validate(code[1]).warnings)
           IN  /\ ClearingWarning \notin after
               /\ "Missing recommended import: bpy" \notin after

(***************************************************************************)
(* C28: auto_fix only inserts text                                         *)
(***************************************************************************)

\* the lines of the clearing snippet as they stand in a text
SnippetLines == Split(clear_code, "\n")

\* the line is an import line
IsImportLine(line) == StartsWith(line, "import ") \/ StartsWith(line, "from ")

\* the number of the last import line of a list of lines, 0 when it has none
LastImportLine(lines) ==
    LET hits == { i \in 1..Len(lines) : IsImportLine(lines[i]) }
    IN  IF hits = {} THEN 0 ELSE CHOOSE i \in hits : \A j \in hits : j <= i

\* out is made of the lines of inp, all of them and in their order, with an
\* 'import bpy' line in front when imp is set, and with the snippet directly
\* after the last import line of the text (the top when it has none) when
\* snip is set
OnlyInserted(inp, out, imp, snip) ==
    LET withImport == (IF imp THEN << "import bpy" >> ELSE <<>>) \o inp
        k == LastImportLine(withImport)
    IN  out = IF snip
              THEN SubSeq(withImport, 1, k) \o SnippetLines
                       \o SubSeq(withImport, k + 1, Len(withImport))
              ELSE withImport

\* C28: the output of auto_fix has every line of its input, unchanged and in
\* the same order; what is added is at most one 'import bpy' line at the very
\* start and at most one clearing snippet, placed directly after the last
\* line that begins with 'import ' or 'from ', or at the top when there is
\* no such line.
C28_AutoFixOnlyInserts ==
    pc = "fixed" =>
        \E imp \in BOOLEAN, snip \in BOOLEAN :
            OnlyInserted(Split(original[1], "\n"), Split(code[1], "\n"), imp, snip)

\* both additions were made to a text that has an import line of its own
\* followed by another line: the snippet stands between lines of the input
C28_Witness ==
    /\ pc = "fixed"
    /\ LET inp == Split(original[1], "\n")
       IN  /\ LastImportLine(inp) > 0
           /\ LastImportLine(inp) < Len(inp)
           /\ OnlyInserted(inp, Split(code[1], "\n"), TRUE, TRUE)

\* the snippet was put at the top of a text that has no import line
C28_SnippetAtTop ==
    /\ pc = "fixed"
    /\ SnippetInjected
    /\ StartsWith(code[1], clear_code)

(***************************************************************************)
(* C29: the export call of the combined script                             *)
(***************************************************************************)

\* the Blender operators that export a scene in the format
ExportOperators(format) ==
    IF format = "obj" THEN { "bpy.ops.wm.obj_export", "bpy.ops.export_scene.obj" }
    ELSE IF format = "fbx" THEN { "bpy.ops.export_scene.fbx" }
    ELSE IF format = "gltf" THEN { "bpy.ops.export_scene.gltf" }
    ELSE IF format = "stl" THEN { "bpy.ops.export_mesh.stl", "bpy.ops.wm.stl_export" }
    ELSE IF format = "ply" THEN { "bpy.ops.export_mesh.ply", "bpy.ops.wm.ply_export" }
    ELSE {}

\* the script calls an export operator of the format with the path as its
\* filepath
HasExportCall(script, format, path) ==
    \E op \in ExportOperators(format) :
        Contains(script, op \o "(filepath=r'" \o path \o "')")

\* C29: for every export format of valid_formats, when execute_full_pipeline
\* has run with export enabled and returned an export_path that is not None,
\* the combined script it executed contains the call of an export operator
\* of that format that writes to export_path.
C29_ExportCallForEveryFormat ==
    (pc = "done" /\ execCalls = 1 /\ result # None) =>
        (result[1].export_path # None =>
            HasExportCall(executed[1], export_format, result[1].export_path[1]))

(***************************************************************************)
(* C30: a measurement needs a complete unit word                           *)
(***************************************************************************)

\* a number starts at the position i and is followed, after optional
\* whitespace, by a unit of the table that is a complete word: no word
\* character comes directly after it
CompleteUnitAt(text, i) ==
    /\ IsDigit(CharAt(text, i))
    /\ LET s == SkipSpace(text, NumberEnd(text, i))
       IN  \E k \in 1..Len(UNITS) :
              /\ UnitAt(text, s, k)
              /\ ~IsWordChar(CharAt(text, s + Len(UNITS[k][1])))

\* the text has a number with a unit
HasNumberWithUnit(text) == \E i \in 0..(Len(text) - 1) : CompleteUnitAt(text, i)

\* the text ends with the measurement note
HasMeasurementNote(text) ==
    /\ Len(text) >= Len(measurement_note)
    /\ Suffix(text, Len(text) - Len(measurement_note)) = measurement_note

\* C30: _extract_measurements produces records only for a prompt in which a
\* number is followed by a complete unit word of the table (a longer word
\* that merely starts with a unit name, as in '5 minutes' or '3 materials',
\* gives none), and the dictionary of process has the measurement note at
\* the end of the enhanced prompt only when the cleaned prompt has a number
\* with a unit.
C30_OnlyCompleteUnitWords ==
    /\ pc = "measured" =>
          (Len(processed[1]) > 0 => HasNumberWithUnit(prompt[1]))
    /\ pc = "processed" =>
          (HasMeasurementNote(processed[1].enhanced)
              => HasNumberWithUnit(processed[1].cleaned))

====
